---- MODULE Spec2Model ----
(***************************************************************************)
(* A model of tools/pptx_deep_compare.py: the PPTXAnalyzer that loads an   *)
(* OPC package, parses its content-type manifest and relationship          *)
(* descriptors and validates the resulting graph, and the pure reference   *)
(* resolver _resolve_target.                                               *)
(*                                                                         *)
(* Strings.  A Python str is a string, character by character: every     *)
(* test the code makes on a string (startswith, endswith, split, replace,  *)
(* in, the part-name patterns, int) is computed on its characters.         *)
(***************************************************************************)
EXTENDS Integers, Sequences, FiniteSets, TLC

VARIABLES
    \* ---- PPTXAnalyzer ----
    zip,            \* the archive: entries <<name, content>> in namelist() order
    pc,             \* position of the caller in analyze()
    files,          \* self.files        (insertion-ordered dict name -> content)
    hashes,         \* self.hashes       (insertion-ordered dict name -> fingerprint)
    content_types,  \* self.content_types (dict part -> media type)
    default_types,  \* self.default_types (dict extension -> media type)
    relations,      \* self.relations    (dict source part -> list of relations)
    issues,         \* self.issues       (list)
    exc,            \* the exception that left analyze(), "none" if none did
    runs,           \* number of analyze() / _validate_references() calls started
    hashSeed,       \* what the process's string-hash seed has fixed so far: the
                    \* iteration order of each set a loop has iterated
    hist,           \* history: one record per finished _validate_references() run
    \* ---- the resolver called on its own ----
    source, target, result, called,
    \* ---- the other PPTXAnalyzer objects and the PPTXComparator ----
    cur,            \* which analyzer the fields above belong to
    pool,           \* the analyzers that are not executing: name -> fields
    cpc,            \* position of the comparator's caller
    diffs,          \* comparator.diffs (list)
    returned,       \* the comparator's caller's last call and what it returned
    cexc,           \* the exception that left a comparator call, or "none"
    compares        \* number of compare() calls made on the comparator

avars == <<zip, pc, files, hashes, content_types, default_types, relations,
           issues, exc, runs, hist>>
rvars == <<source, target, result, called>>
cvars == <<cur, pool, cpc, diffs, returned, cexc, compares>>
vars  == <<zip, pc, files, hashes, content_types, default_types, relations,
           issues, exc, runs, hashSeed, hist, source, target, result, called,
           cur, pool, cpc, diffs, returned, cexc, compares>>

(***************************************************************************)
(* Bounds.                                                                 *)
(***************************************************************************)
MaxSourceLen == 3     \* characters in a resolver source drawn from the alphabet
MaxTargetLen == 5     \* characters in a resolver target drawn from the alphabet
MaxRuns      == 2     \* analyze() / _validate_references() calls on one analyzer
MaxRels      == 2     \* Relationship elements in a generated descriptor
MaxSlideIds  == 2     \* p:sldId elements in a generated presentation list
MaxSectionRefs == 1   \* p:sldId elements in a generated section
MaxComments  == 2     \* p:cm elements in a generated comment part
MaxCompares  == 2     \* compare() calls on one comparator

(***************************************************************************)
(* str methods.  A str is a string; s[i:j] is SubSeq, + is \o.             *)
(***************************************************************************)
\* s[i-1]: the i-th character
Char(s, i) == SubSeq(s, i, i)

\* s.startswith(p)
StartsWith(s, p) == Len(s) >= Len(p) /\ SubSeq(s, 1, Len(p)) = p

\* s.endswith(p)
EndsWith(s, p) == Len(s) >= Len(p) /\ SubSeq(s, Len(s) - Len(p) + 1, Len(s)) = p

\* w in s
Contains(s, w) ==
    \E i \in 1..(Len(s) - Len(w) + 1) : SubSeq(s, i, i + Len(w) - 1) = w

\* s.lstrip(c): every leading c is removed
LStrip(s, c) ==
    LET lead == {i \in 0..Len(s) : \A j \in 1..i : Char(s, j) = c}
        k == CHOOSE i \in lead : \A j \in lead : j <= i
    IN  SubSeq(s, k + 1, Len(s))

\* s.split(sep) for a one-character sep: always at least one segment, empty
\* segments are kept
Split(s, sep) ==
    LET seps == {i \in 1..Len(s) : Char(s, i) = sep}
        \* the position of the k-th separator; 0 and Len(s) + 1 bound the string
        cut(k) == IF k = 0 THEN 0
                  ELSE IF k > Cardinality(seps) THEN Len(s) + 1
                  ELSE CHOOSE i \in seps : Cardinality({j \in seps : j < i}) = k - 1
    IN  [k \in 1..(Cardinality(seps) + 1) |-> SubSeq(s, cut(k - 1) + 1, cut(k) - 1)]

\* sep.join(segs)
Join(segs, sep) ==
    LET f[i \in 0..Len(segs)] ==
            IF i = 0 THEN ""
            ELSE IF i = 1 THEN segs[1]
            ELSE f[i-1] \o sep \o segs[i]
    IN  f[Len(segs)]

\* s.replace(old, new) for a non-empty old: every occurrence, found from the
\* left, without overlap
RECURSIVE Replace(_, _, _)
Replace(s, old, new) ==
    IF Len(s) < Len(old) THEN s
    ELSE IF StartsWith(s, old)
         THEN new \o Replace(SubSeq(s, Len(old) + 1, Len(s)), old, new)
    ELSE Char(s, 1) \o Replace(SubSeq(s, 2, Len(s)), old, new)

\* seq[:-1]
ButLast(s) == SubSeq(s, 1, Len(s) - 1)

\* seq[-1]
Last(s) == s[Len(s)]

(***************************************************************************)
(* PPTXAnalyzer._resolve_target                                            *)
(***************************************************************************)
\* the loop of lines 142-148 over the segments parts
ResolveLoop(parts) ==
    LET f[i \in 0..Len(parts)] ==
            IF i = 0 THEN <<>>
            ELSE IF parts[i] = ".."
                 THEN (IF f[i-1] # <<>> THEN ButLast(f[i-1]) ELSE f[i-1])
            ELSE IF parts[i] # "" /\ parts[i] # "."
                 THEN Append(f[i-1], parts[i])
            ELSE f[i-1]
    IN  f[Len(parts)]

_resolve_target(src, tgt) ==
    IF StartsWith(tgt, "/") THEN LStrip(tgt, "/")
    ELSE IF src = "" THEN tgt
    ELSE LET base == Join(ButLast(Split(src, "/")), "/")
         IN  IF base = "" THEN tgt
             ELSE Join(ResolveLoop(Split(base \o "/" \o tgt, "/")), "/")

(***************************************************************************)
(* Insertion-ordered dicts (Python dict): a sequence of <<key, value>>     *)
(* pairs with pairwise distinct keys, in insertion order.                  *)
(***************************************************************************)
\* list(d.keys())
Keys(d) == [i \in 1..Len(d) |-> d[i][1]]

\* k in d
DictHas(d, k) == \E i \in 1..Len(d) : d[i][1] = k

\* d[k]
DictGet(d, k) == d[CHOOSE i \in 1..Len(d) : d[i][1] = k][2]

\* d.get(k, dflt)
DictGetOr(d, k, dflt) == IF DictHas(d, k) THEN DictGet(d, k) ELSE dflt

\* d[k] = v: an existing key keeps its position, a new key goes last
DictSet(d, k, v) ==
    IF DictHas(d, k)
    THEN [i \in 1..Len(d) |-> IF d[i][1] = k THEN <<k, v>> ELSE d[i]]
    ELSE Append(d, <<k, v>>)

\* x in seq
InSeq(x, s) == \E i \in 1..Len(s) : s[i] = x

\* the elements of s without repetition, in order of first occurrence
\* (the keys of a dict filled while iterating s)
Distinct(s) ==
    LET f[i \in 0..Len(s)] ==
            IF i = 0 THEN <<>>
            ELSE IF InSeq(s[i], f[i-1]) THEN f[i-1] ELSE Append(f[i-1], s[i])
    IN  f[Len(s)]

\* s.count(x)
Count(s, x) == Cardinality({i \in 1..Len(s) : s[i] = x})

\* [x for x in s if x in keep]
Filter(s, keep) ==
    LET f[i \in 0..Len(s)] ==
            IF i = 0 THEN <<>>
            ELSE IF s[i] \in keep THEN Append(f[i-1], s[i]) ELSE f[i-1]
    IN  f[Len(s)]

\* set(seq)
SetOf(s) == {s[i] : i \in 1..Len(s)}

(***************************************************************************)
(* Iteration over a set.  The order in which a for loop meets the elements *)
(* of a set of strings is fixed by the string hashes of the process and by *)
(* the way the set was built: any order can occur, and a set built the     *)
(* same way iterates the same way every time in one process.  Only the     *)
(* relative order of the elements for which the body of the loop does      *)
(* something shows.  A loop is described by the name of the set in the     *)
(* code (site), the key lists the set is built from (of) and the elements  *)
(* its body acts on (elems); hashSeed holds, per site and key lists, the   *)
(* order fixed so far among the elements that loops have acted on.         *)
(***************************************************************************)
Loop(site, of, elems) == [site |-> site, of |-> of, elems |-> elems]

RECURSIVE Perms(_)
\* the orderings of a finite set
Perms(S) ==
    IF S = {} THEN {<<>>}
    ELSE UNION {{<<x>> \o o : o \in Perms(S \ {x})} : x \in S}

\* the order in which the loop meets the elements it acts on: the one the
\* seed has fixed, and one of the possible orders where it has fixed none
SetOrder(loop, seed) ==
    LET fixed == {e \in seed : /\ e.site = loop.site /\ e.of = loop.of
                                   /\ loop.elems \subseteq SetOf(e.order)}
    IN  IF fixed # {} THEN Filter((CHOOSE e \in fixed : TRUE).order, loop.elems)
        ELSE CHOOSE o \in Perms(loop.elems) : TRUE

RECURSIVE Commit(_, _)
\* the values hashSeed can take once the loops have run from seed h: an
\* order already fixed is kept, the elements met for the first time fall
\* anywhere in it
Commit(h, loops) ==
    IF loops = {} THEN {h}
    ELSE LET q   == CHOOSE x \in loops : TRUE
             old == {e \in h : e.site = q.site /\ e.of = q.of}
             fixed == IF old = {} THEN <<>> ELSE (CHOOSE e \in old : TRUE).order
             all == SetOf(fixed) \cup q.elems
             orders == {o \in Perms(all) : Filter(o, SetOf(fixed)) = fixed}
         IN  IF Cardinality(q.elems) <= 1 THEN Commit(h, loops \ {q})
             ELSE UNION {Commit((h \ old) \cup {[site |-> q.site, of |-> q.of,
                                                 order |-> o]},
                                loops \ {q}) : o \in orders}

(***************************************************************************)
(* XML.  The bytes of a part are modelled by what xml.etree makes of them. *)
(* Bytes that ET.fromstring rejects are a record with wf = FALSE: the call *)
(* raises ET.ParseError, or, where the record has the field raises, the    *)
(* exception named there (LookupError for an XML declaration that names an *)
(* encoding Python does not know, ValueError for one that names a          *)
(* multi-byte encoding), which no "except ET.ParseError" catches.  A       *)
(* well-formed document is a record with wf = TRUE and, per element path   *)
(* the analyzer queries, the elements found (attribute records), in        *)
(* document order.  A path with no field matches nothing.                  *)
(*   Default, Override          children of the manifest root              *)
(*   Relationship               children of a descriptor root              *)
(*   sldMasterIdLst             p:sldMasterIdLst/p:sldMasterId             *)
(*   notesMasterIdLst           p:notesMasterIdLst/p:notesMasterId         *)
(*   clrMapOvr                  p:clrMapOvr elements                       *)
(*   Slides, Notes              ep:Slides / ep:Notes elements (.text)      *)
(*   cmAuthor, cm               p:cmAuthor / p:cm elements                 *)
(* The slide-id lists and the sections of a presentation are queried with  *)
(* paths that meet one another (a p:sldIdLst of the presentation, a        *)
(* p:sldIdLst inside a p:section), so they are kept as the element tree    *)
(* itself: the field kids of the document holds the p:sldIdLst and         *)
(* p:sectionLst elements in document order, each element the record of its *)
(* attributes with its tag in the field tag and its child elements in the  *)
(* field kids.  Elements between them and the root (p:extLst, p:ext) do    *)
(* not show in a path that starts with './/' and are left out.             *)
(* A value that is a str or None (elem.get(name), elem.text, the 'resolved' *)
(* of a relationship that may not exist) is the one-element tuple <<s>>    *)
(* for the str s, read back as v[1], and the empty tuple for None, so that *)
(* no str, whatever its characters, is None.                               *)
(***************************************************************************)
None == <<>>

\* Python truthiness of an attribute value or text (str or None)
Truthy(v) == v # None /\ v # <<"">>

\* bytes that are no well-formed XML: ET.fromstring raises ET.ParseError
Malformed == [wf |-> FALSE]

\* <?xml version="1.0" encoding="foo"?>: ET.fromstring raises LookupError
UnknownEncoding == [wf |-> FALSE, raises |-> "LookupError"]

\* <?xml version="1.0" encoding="shift_jis"?>: ET.fromstring raises
\* ValueError (multi-byte encodings are not supported)
MultiByteEncoding == [wf |-> FALSE, raises |-> "ValueError"]

\* ET.fromstring(bytes): the exception it raises, "none" when it returns
FromStringRaises(doc) ==
    IF doc.wf THEN "none"
    ELSE IF "raises" \in DOMAIN doc THEN doc.raises
    ELSE "ParseError"

\* elem.get(name, dflt) with a str dflt: an absent attribute is an absent
\* field
Attr(elem, name, dflt) == IF name \in DOMAIN elem THEN elem[name] ELSE dflt

\* elem.get(name), and elem.text for the name "text": None when absent
Get(elem, name) == IF name \in DOMAIN elem THEN <<elem[name]>> ELSE None

\* root.findall(path) for a path that names direct children or a fixed chain
FindAll(doc, path) == IF path \in DOMAIN doc THEN doc[path] ELSE <<>>

\* the child elements of an element of the tree, or of the document
Kids(elem) == IF "kids" \in DOMAIN elem THEN elem.kids ELSE <<>>

\* [e for e in elem if e.tag == tag]
Children(elem, tag) ==
    LET HasTag(e) == e.tag = tag IN SelectSeq(Kids(elem), HasTag)

RECURSIVE Descendants(_)
\* elem.iter() without elem itself: the descendants in document order
Descendants(elem) ==
    LET kids == Kids(elem)
        f[i \in 0..Len(kids)] ==
            IF i = 0 THEN <<>>
            ELSE f[i-1] \o << kids[i] >> \o Descendants(kids[i])
    IN  f[Len(kids)]

\* elem.findall('.//p:parent/p:child'): for each descendant with the tag
\* parent, in document order, its children with the tag child
FindAllUnder(elem, parent, child) ==
    LET found == Descendants(elem)
        f[i \in 0..Len(found)] ==
            IF i = 0 THEN <<>>
            ELSE IF found[i].tag = parent THEN f[i-1] \o Children(found[i], child)
            ELSE f[i-1]
    IN  f[Len(found)]

\* elem.findall('.//p:sldIdLst/p:sldId'), on the root or on a p:section
FindAllSldId(elem) == FindAllUnder(elem, "sldIdLst", "sldId")

\* root.findall('.//p:sectionLst/p:section')
FindAllSection(root) == FindAllUnder(root, "sectionLst", "section")

(***************************************************************************)
(* Relationship types.  A Type is the URI prefix RelNS, '/', and a kind.   *)
(***************************************************************************)
RelNS == "http://schemas.openxmlformats.org/officeDocument/2006/relationships"

RelType(kind) == RelNS \o "/" \o kind

\* REL_TYPES
REL_TYPES(kind) == RelType(kind)

\* word in s
ContainsWord(s, word) == Contains(s, word)

\* REL_TYPES[kind] in s
ContainsRelType(s, kind) == Contains(s, REL_TYPES(kind))

(***************************************************************************)
(* Part names.                                                             *)
(***************************************************************************)
ContentTypesXml == "[Content_Types].xml"
RootRels        == "_rels/.rels"
PresentationXml == "ppt/presentation.xml"
PresentationRels ==
    "ppt/_rels/presentation.xml.rels"
AppXml          == "docProps/app.xml"
CommentAuthorsXml == "ppt/commentAuthors.xml"

\* the decimal digits (Unicode category Nd) that \d matches and int() reads,
\* one string per script with the digits of value 0 to 9 in order: the ASCII
\* digits and the ones of U+06F0, U+07C0, U+09E6, U+0AE6, U+0BE6, U+0CE6,
\* U+0DE6, U+0ED0, U+1090, U+17E0, U+19D0, U+1A80, U+1A90, U+1BB0, U+A8D0,
\* U+A9D0, U+A9F0 and U+ABF0.  The digits of the other scripts are characters
\* no string of a module can hold.
DigitRows ==
    << "0123456789",
       "۰۱۲۳۴۵۶۷۸۹",
       "߀߁߂߃߄߅߆߇߈߉",
       "০১২৩৪৫৬৭৮৯",
       "૦૧૨૩૪૫૬૭૮૯",
       "௦௧௨௩௪௫௬௭௮௯",
       "೦೧೨೩೪೫೬೭೮೯",
       "෦෧෨෩෪෫෬෭෮෯",
       "໐໑໒໓໔໕໖໗໘໙",
       "႐႑႒႓႔႕႖႗႘႙",
       "០១២៣៤៥៦៧៨៩",
       "᧐᧑᧒᧓᧔᧕᧖᧗᧘᧙",
       "᪀᪁᪂᪃᪄᪅᪆᪇᪈᪉",
       "᪐᪑᪒᪓᪔᪕᪖᪗᪘᪙",
       "᮰᮱᮲᮳᮴᮵᮶᮷᮸᮹",
       "꣐꣑꣒꣓꣔꣕꣖꣗꣘꣙",
       "꧐꧑꧒꧓꧔꧕꧖꧗꧘꧙",
       "꧰꧱꧲꧳꧴꧵꧶꧷꧸꧹",
       "꯰꯱꯲꯳꯴꯵꯶꯷꯸꯹" >>

Digits == {Char(DigitRows[r], i) : r \in 1..Len(DigitRows), i \in 1..10}

\* re.match(prefix + word + r'\d+\.xml$', name): $ matches at the end of the
\* name and before a newline that ends it
MatchNumbered(name, prefix, word) ==
    LET head == prefix \o word
        body == IF EndsWith(name, "\n") THEN ButLast(name) ELSE name
        n == Len(body)
        p == Len(head)
    IN  /\ n >= p + 5
        /\ StartsWith(body, head)
        /\ \A i \in (p + 1)..(n - 4) : Char(body, i) \in Digits
        /\ EndsWith(body, ".xml")

IsSlide(name)     == MatchNumbered(name, "ppt/slides/", "slide")
IsLayout(name)    == MatchNumbered(name, "ppt/slideLayouts/", "slideLayout")
IsNotesSlide(name) == MatchNumbered(name, "ppt/notesSlides/", "notesSlide")
IsComment(name)   == MatchNumbered(name, "ppt/comments/", "comment")

(***************************************************************************)
(* PPTXAnalyzer: loading and parsing.                                      *)
(***************************************************************************)
\* hashlib.sha256(content).hexdigest()[:16]: equal bytes, equal fingerprint
Fingerprint(content) == <<"sha256", content>>

\* _load_files: the dicts after reading every entry of the archive
LoadedFiles ==
    LET f[i \in 0..Len(zip)] ==
            IF i = 0 THEN files ELSE DictSet(f[i-1], zip[i][1], zip[i][2])
    IN  f[Len(zip)]

LoadedHashes ==
    LET f[i \in 0..Len(zip)] ==
            IF i = 0 THEN hashes
            ELSE DictSet(f[i-1], zip[i][1], Fingerprint(zip[i][2]))
    IN  f[Len(zip)]

\* lines 76-79: self.default_types after the Default elements
ParsedDefaults(root) ==
    LET els == FindAll(root, "Default")
        f[i \in 0..Len(els)] ==
            IF i = 0 THEN default_types
            ELSE DictSet(f[i-1], Attr(els[i], "Extension", ""),
                                 Attr(els[i], "ContentType", ""))
    IN  f[Len(els)]

\* lines 81-84: self.content_types after the Override elements
ParsedOverrides(root) ==
    LET els == FindAll(root, "Override")
        f[i \in 0..Len(els)] ==
            IF i = 0 THEN content_types
            ELSE DictSet(f[i-1], LStrip(Attr(els[i], "PartName", ""), "/"),
                                 Attr(els[i], "ContentType", ""))
    IN  f[Len(els)]

\* s.replace('.rels', '')
RemoveDotRels(s) == Replace(s, ".rels", "")

\* _rels_to_part raises ValueError: parts.index('_rels') finds nothing
RelsToPartRaises(rels_path) ==
    rels_path # RootRels /\ ~InSeq("_rels", Split(rels_path, "/"))

_rels_to_part(rels_path) ==
    IF rels_path = RootRels THEN ""
    ELSE LET parts    == Split(rels_path, "/")
             rels_idx == CHOOSE i \in 1..Len(parts) :
                            /\ parts[i] = "_rels"
                            /\ \A j \in 1..(i - 1) : parts[j] # "_rels"
             base     == Join(SubSeq(parts, 1, rels_idx - 1), "/")
             filename == RemoveDotRels(Last(parts))
         IN  IF base # "" THEN base \o "/" \o filename ELSE filename

\* lines 104-116: the relation built from one Relationship element
ParsedRel(source_part, rel) ==
    LET tgt  == Attr(rel, "Target", "")
        mode == Attr(rel, "TargetMode", "Internal")
    IN  [id       |-> Attr(rel, "Id", ""),
         type     |-> Attr(rel, "Type", ""),
         target   |-> tgt,
         mode     |-> mode,
         resolved |-> IF mode # "External"
                      THEN _resolve_target(source_part, tgt) ELSE tgt]

\* a variant that extends the source's existing relation list instead of
\* replacing it
_parse_rels_extend(st, rels_path) ==
    LET root == DictGet(files, rels_path)
    IN  IF FromStringRaises(root) = "ParseError"
        THEN [st EXCEPT !.issues =
                 Append(@, [type |-> "ERROR", msg |-> "Invalid XML in",
                            path |-> rels_path])]
        ELSE IF ~root.wf
        THEN [st EXCEPT !.exc = FromStringRaises(root)]
        ELSE IF RelsToPartRaises(rels_path)
        THEN [st EXCEPT !.exc = "ValueError"]
        ELSE LET source_part == _rels_to_part(rels_path)
                 els  == FindAll(root, "Relationship")
                 rels == [i \in 1..Len(els) |-> ParsedRel(source_part, els[i])]
             IN  [st EXCEPT !.relations =
                     DictSet(@, source_part,
                             DictGetOr(st.relations, source_part, <<>>) \o rels)]

\* _parse_rels on the analyzer state st = [relations, issues, exc]
_parse_rels(st, rels_path) ==
    LET root == DictGet(files, rels_path)
    IN  IF FromStringRaises(root) = "ParseError"
        THEN [st EXCEPT !.issues =
                 Append(@, [type |-> "ERROR", msg |-> "Invalid XML in",
                            path |-> rels_path])]
        ELSE IF ~root.wf
        THEN [st EXCEPT !.exc = FromStringRaises(root)]
        ELSE IF RelsToPartRaises(rels_path)
        THEN [st EXCEPT !.exc = "ValueError"]
        ELSE LET source_part == _rels_to_part(rels_path)
                 els  == FindAll(root, "Relationship")
                 rels == [i \in 1..Len(els) |-> ParsedRel(source_part, els[i])]
             IN  [st EXCEPT !.relations = DictSet(@, source_part, rels)]

\* a variant whose loop starts from an empty issue list
_parse_all_rels_FreshIssues ==
    LET names == Keys(files)
        f[i \in 0..Len(names)] ==
            IF i = 0 THEN [relations |-> relations, issues |-> <<>>, exc |-> "none"]
            ELSE IF f[i-1].exc # "none" THEN f[i-1]
            ELSE IF EndsWith(names[i], ".rels") THEN _parse_rels(f[i-1], names[i])
            ELSE f[i-1]
    IN  f[Len(names)]

\* _parse_all_rels: the state after the loop, which an exception leaves
_parse_all_rels ==
    LET names == Keys(files)
        f[i \in 0..Len(names)] ==
            IF i = 0 THEN [relations |-> relations, issues |-> issues, exc |-> "none"]
            ELSE IF f[i-1].exc # "none" THEN f[i-1]
            ELSE IF EndsWith(names[i], ".rels") THEN _parse_rels(f[i-1], names[i])
            ELSE f[i-1]
    IN  f[Len(names)]

(***************************************************************************)
(* PPTXAnalyzer: validation.  Each check is the list of issues it appends, *)
(* a function of files, relations, content_types and default_types.  The   *)
(* 'msg' of an issue is a formatting of its other fields and is left out.  *)
(***************************************************************************)
\* the concatenation of a list of lists (the issues appended by a loop)
Concat(lists) ==
    LET f[i \in 0..Len(lists)] == IF i = 0 THEN <<>> ELSE f[i-1] \o lists[i]
    IN  f[Len(lists)]

\* what a check leaves behind: the issues it appended, and the exception
\* that ended it ("none" when it returned)
Appended(list) == [issues |-> list, exc |-> "none"]

Raising(e) == [issues |-> <<>>, exc |-> e]

\* one check after another: nothing runs after an exception
AndThen(before, next) ==
    IF before.exc # "none" THEN before
    ELSE [issues |-> before.issues \o next.issues, exc |-> next.exc]

\* a variant that reports inside the loop over the relations, once per
\* occurrence of a repeated id
DuplicateRidIssues_PerOccurrence(src, rels) ==
    LET ids == [i \in 1..Len(rels) |-> rels[i].id]
    IN  Concat([i \in 1..Len(ids) |->
            IF Count(ids, ids[i]) > 1
            THEN << [type |-> "DUPLICATE_RID", source |-> src, rid |-> ids[i],
                     count |-> Count(ids, ids[i])] >>
            ELSE <<>>])

\* lines 157-168: one DUPLICATE_RID per id counted more than once
DuplicateRidIssues(src, rels) ==
    LET ids  == [i \in 1..Len(rels) |-> rels[i].id]
        rids == Distinct(ids)
    IN  Concat([i \in 1..Len(rids) |->
            IF Count(ids, rids[i]) > 1
            THEN << [type |-> "DUPLICATE_RID", source |-> src, rid |-> rids[i],
                     count |-> Count(ids, rids[i])] >>
            ELSE <<>>])

\* line 174: the test that reports a relation as broken
IsBroken(rel, all_parts) == rel.resolved # "" /\ rel.resolved \notin all_parts

\* lines 170-181: one BROKEN_REF per relation that is not External and
\* whose non-empty resolved path is no part
BrokenRefIssues(src, rels, all_parts) ==
    Concat([i \in 1..Len(rels) |->
        IF rels[i].mode = "External" THEN <<>>
        ELSE IF IsBroken(rels[i], all_parts)
        THEN << [type |-> "BROKEN_REF", source |-> src,
                 target |-> rels[i].resolved, rid |-> rels[i].id] >>
        ELSE <<>>])

\* lines 155-181
RelationIssues ==
    LET all_parts == {files[i][1] : i \in 1..Len(files)}
    IN  Concat([i \in 1..Len(relations) |->
            DuplicateRidIssues(relations[i][1], relations[i][2])
            \o BrokenRefIssues(relations[i][1], relations[i][2], all_parts)])

\* line 189
Extension(part) == IF Contains(part, ".") THEN Last(Split(part, ".")) ELSE ""

\* lines 185-195: what the loop over all_parts appends for one part
ContentTypeIssue(part) ==
    IF StartsWith(part, "_rels/") \/ EndsWith(part, ".rels") THEN <<>>
    ELSE IF part = ContentTypesXml THEN <<>>
    ELSE IF ~DictHas(content_types, part)
            /\ ~DictHas(default_types, Extension(part))
    THEN << [type |-> "MISSING_CONTENT_TYPE", part |-> part] >>
    ELSE <<>>

\* line 153: all_parts = set(self.files.keys()), iterated at line 184
AllPartsLoop ==
    Loop("all_parts", << Keys(files) >>,
         {part \in SetOf(Keys(files)) : ContentTypeIssue(part) # <<>>})

\* lines 183-195
ContentTypeIssues(seed) ==
    LET all_parts == SetOrder(AllPartsLoop, seed)
    IN  Concat([i \in 1..Len(all_parts) |-> ContentTypeIssue(all_parts[i])])

\* line 217: name.replace('ppt/slideLayouts/', 'ppt/slideLayouts/_rels/') + '.rels'
LayoutRelsPath(name) ==
    Replace(name, "ppt/slideLayouts/", "ppt/slideLayouts/_rels/") \o ".rels"

\* any(... for r in rels)
AnyRel(rels, P(_)) == \E i \in 1..Len(rels) : P(rels[i])

_validate_layout_master_chain ==
    LET names == Keys(files)
    IN  Concat([i \in 1..Len(names) |->
            LET name == names[i]
                rels == DictGetOr(relations, name, <<>>)
                IsMaster(r) == ContainsRelType(r.type, "slideMaster")
            IN  IF ~IsLayout(name) THEN <<>>
                ELSE IF ~DictHas(files, LayoutRelsPath(name))
                THEN << [type |-> "MISSING_LAYOUT_RELS", part |-> name] >>
                ELSE IF ~AnyRel(rels, IsMaster)
                THEN << [type |-> "LAYOUT_NO_MASTER", part |-> name] >>
                ELSE <<>>])

\* the truthy 'id' attributes of a list of elements, in order
TruthyIds(els) ==
    LET f[i \in 0..Len(els)] ==
            IF i = 0 THEN <<>>
            ELSE IF Truthy(Get(els[i], "id"))
                 THEN Append(f[i-1], Get(els[i], "id")[1]) ELSE f[i-1]
    IN  f[Len(els)]

\* lines 251-257 and 265-271: [s for s in ids if ids.count(s) > 1] reported
\* as the set of its values
DuplicateIdIssues(kind, ids) ==
    LET duplicates == {ids[i] : i \in {j \in 1..Len(ids) : Count(ids, ids[j]) > 1}}
    IN  IF duplicates # {} THEN << [type |-> kind, ids |-> duplicates] >> ELSE <<>>

\* INVALID_PRES_REL_TYPES
INVALID_PRES_REL_TYPES ==
    { "image", "slideLayout", "notesSlide", "audio", "video",
      "chart", "oleObject" }

\* f'PRES_RELS_INVALID_{rel_type.upper()}'
PresRelsInvalidType(rel_type) ==
    CASE rel_type = "image"       -> "PRES_RELS_INVALID_IMAGE"
      [] rel_type = "slideLayout" -> "PRES_RELS_INVALID_SLIDELAYOUT"
      [] rel_type = "notesSlide"  -> "PRES_RELS_INVALID_NOTESSLIDE"
      [] rel_type = "audio"       -> "PRES_RELS_INVALID_AUDIO"
      [] rel_type = "video"       -> "PRES_RELS_INVALID_VIDEO"
      [] rel_type = "chart"       -> "PRES_RELS_INVALID_CHART"
      [] rel_type = "oleObject"   -> "PRES_RELS_INVALID_OLEOBJECT"

\* line 316: rel['type'].split('/')[-1]
RelTypeName(rel) == Last(Split(rel.type, "/"))

_validate_presentation_rels ==
    LET pres_rels == DictGetOr(relations, PresentationXml, <<>>)
        entry(rel) == [rid |-> rel.id, type |-> RelTypeName(rel), target |-> rel.target]
        all == [i \in 1..Len(pres_rels) |-> entry(pres_rels[i])]
        invalid_rels ==
            LET f[i \in 0..Len(all)] ==
                    IF i = 0 THEN <<>>
                    ELSE IF all[i].type \in INVALID_PRES_REL_TYPES
                         THEN Append(f[i-1], all[i]) ELSE f[i-1]
            IN  f[Len(all)]
        by_type == Distinct([i \in 1..Len(invalid_rels) |-> invalid_rels[i].type])
        of(t) == Filter(invalid_rels, {r \in {invalid_rels[i] : i \in 1..Len(invalid_rels)} :
                                            r.type = t})
    IN  IF invalid_rels = <<>> THEN <<>>
        ELSE << [type |-> "INVALID_PRESENTATION_RELS", invalid_relations |-> invalid_rels] >>
             \o [i \in 1..Len(by_type) |->
                    [type    |-> PresRelsInvalidType(by_type[i]),
                     count   |-> Len(of(by_type[i])),
                     rids    |-> [j \in 1..Len(of(by_type[i])) |-> of(by_type[i])[j].rid],
                     targets |-> [j \in 1..Len(of(by_type[i])) |-> of(by_type[i])[j].target]]]

_validate_sections(pres_root) ==
    LET sections == FindAllSection(pres_root)
        ids == TruthyIds(FindAllSldId(pres_root))
        all_slide_ids == {ids[i] : i \in 1..Len(ids)}
    IN  Concat([i \in 1..Len(sections) |->
            LET refs == FindAllSldId(sections[i])
            IN  Concat([j \in 1..Len(refs) |->
                    LET id == Get(refs[j], "id")
                    IN  IF Truthy(id) /\ id[1] \notin all_slide_ids
                        THEN << [type |-> "SECTION_INVALID_SLIDE_REF",
                                 section |-> Attr(sections[i], "name", ""),
                                 slideId |-> id[1]] >>
                        ELSE <<>>])])

_validate_notes_master(pres_root) ==
    LET found == FindAll(pres_root, "notesMasterIdLst")
        rid   == IF found = <<>> THEN None ELSE Get(found[1], "rid")
        rels  == DictGetOr(relations, PresentationXml, <<>>)
        HasId(r) == <<r.id>> = rid
    IN  IF Truthy(rid) /\ ~AnyRel(rels, HasId)
        THEN << [type |-> "MISSING_NOTESMASTER_REL", rid |-> rid[1]] >>
        ELSE <<>>

_validate_presentation_ids ==
    IF ~DictHas(files, PresentationXml) THEN Appended(<<>>)
    ELSE LET root == DictGet(files, PresentationXml)
         IN  IF FromStringRaises(root) = "ParseError" THEN Appended(<<>>)
             ELSE IF ~root.wf THEN Raising(FromStringRaises(root))
             ELSE Appended(
                  DuplicateIdIssues("DUPLICATE_SLIDE_ID", TruthyIds(FindAllSldId(root)))
                  \o DuplicateIdIssues("DUPLICATE_MASTER_ID",
                                       TruthyIds(FindAll(root, "sldMasterIdLst")))
                  \o _validate_presentation_rels
                  \o _validate_sections(root)
                  \o _validate_notes_master(root))

\* lines 403-435: what the loop over the files does for one name
NoteslideIssues(name) ==
    LET root == DictGet(files, name)
        rels == DictGetOr(relations, name, <<>>)
        clr  == FindAll(root, "clrMapOvr")
        slide_ref == IF clr = <<>> THEN None ELSE Get(clr[1], "rid")
        IsSlideRel(r) == <<r.id>> = slide_ref /\ ContainsWord(r.type, "slide")
        IsNotesMaster(r) == ContainsWord(r.type, "notesMaster")
    IN  IF ~IsNotesSlide(name) THEN Appended(<<>>)
        ELSE IF FromStringRaises(root) = "ParseError" THEN Appended(<<>>)
        ELSE IF ~root.wf THEN Raising(FromStringRaises(root))
        ELSE Appended(
             (IF Truthy(slide_ref) /\ ~AnyRel(rels, IsSlideRel)
              THEN << [type |-> "NOTESLIDE_MISSING_SLIDE_REF",
                       noteslide |-> name, rid |-> slide_ref[1]] >>
              ELSE <<>>)
             \o (IF ~AnyRel(rels, IsNotesMaster)
                 THEN << [type |-> "NOTESLIDE_NO_MASTER", noteslide |-> name] >>
                 ELSE <<>>))

_validate_noteslides ==
    LET names == Keys(files)
        f[i \in 0..Len(names)] ==
            IF i = 0 THEN Appended(<<>>)
            ELSE AndThen(f[i-1], NoteslideIssues(names[i]))
    IN  f[Len(names)]

\* the characters int() removes at both ends of its text: the ASCII blanks
\* space, \t, \n, \r, \f and U+000B, and the blanks beyond ASCII, of which a
\* string of a module can hold U+0085, U+00A0 and U+1680 (written here as
\* themselves) and not U+2000 to U+200A, U+2028, U+2029, U+202F, U+205F and
\* U+3000.  U+001C to U+001F are blanks for str.strip() but not for int().
Whitespace == {" ", "\t", "\n", "\r", "\f", "", "", " ", " "}

\* the text int() reads, without the blanks at both of its ends
Strip(s) ==
    LET inner == {i \in 1..Len(s) : Char(s, i) \notin Whitespace}
        first == CHOOSE i \in inner : \A j \in inner : i <= j
        last  == CHOOSE i \in inner : \A j \in inner : j <= i
    IN  IF inner = {} THEN "" ELSE SubSeq(s, first, last)

\* int(text): the numeral without the blanks around it and without its sign
IntBody(text) ==
    LET t == Strip(text)
    IN  IF t # "" /\ Char(t, 1) \in {"+", "-"} THEN SubSeq(t, 2, Len(t)) ELSE t

\* int() refuses a numeral of more digits than sys.get_int_max_str_digits(),
\* 4300 unless the interpreter is started with another limit
MaxStrDigits == 4300

\* decimal digits, with single underscores allowed between digits, the
\* digits no more than the limit
IsNumeral(b) ==
    /\ b # ""
    /\ Cardinality({i \in 1..Len(b) : Char(b, i) \in Digits}) <= MaxStrDigits
    /\ \A i \in 1..Len(b) : Char(b, i) \in Digits \cup {"_"}
    /\ Char(b, 1) # "_" /\ Char(b, Len(b)) # "_"
    /\ \A i \in 1..(Len(b) - 1) : ~(Char(b, i) = "_" /\ Char(b, i + 1) = "_")

\* int(text) returns: blanks, an optional sign, then a numeral; any other
\* text raises ValueError
IsIntText(text) == IsNumeral(IntBody(text))

\* the value of a numeral
NumeralValue(b) ==
    LET DigitValue(c) ==
            CHOOSE v \in 0..9 :
                \E r \in 1..Len(DigitRows) : Char(DigitRows[r], v + 1) = c
        f[i \in 0..Len(b)] ==
            IF i = 0 THEN 0
            ELSE IF Char(b, i) = "_" THEN f[i-1]
            ELSE 10 * f[i-1] + DigitValue(Char(b, i))
    IN  f[Len(b)]

\* the value int(text) returns
IntOf(text) ==
    IF StartsWith(Strip(text), "-") THEN 0 - NumeralValue(IntBody(text))
    ELSE NumeralValue(IntBody(text))

\* the text of root.find(path), None when there is no such element
ElemText(root, path) ==
    IF FindAll(root, path) = <<>> THEN None ELSE Get(FindAll(root, path)[1], "text")

\* len([f for f in self.files if re.match(pattern, f)])
CountParts(P(_)) == Cardinality({i \in 1..Len(files) : P(files[i][1])})

\* _validate_app_properties: the issues it appends and the exception it raises
_validate_app_properties ==
    IF ~DictHas(files, AppXml) THEN [issues |-> <<>>, exc |-> "none"]
    ELSE LET root == DictGet(files, AppXml)
             slides_text == ElemText(root, "Slides")
             notes_text  == ElemText(root, "Notes")
         IN  IF FromStringRaises(root) = "ParseError" THEN Appended(<<>>)
             ELSE IF ~root.wf THEN Raising(FromStringRaises(root))
             ELSE IF (Truthy(slides_text) /\ ~IsIntText(slides_text[1]))
                     \/ (Truthy(notes_text) /\ ~IsIntText(notes_text[1]))
             THEN [issues |-> <<>>, exc |-> "ValueError"]
             ELSE LET declared_slides == IF Truthy(slides_text) THEN IntOf(slides_text[1]) ELSE 0
                      declared_notes  == IF Truthy(notes_text) THEN IntOf(notes_text[1]) ELSE 0
                      actual_slides   == CountParts(IsSlide)
                      actual_notes    == CountParts(IsNotesSlide)
                  IN  [issues |->
                         (IF declared_slides # actual_slides
                          THEN << [type |-> "APP_SLIDE_COUNT_MISMATCH",
                                   declared |-> declared_slides,
                                   actual |-> actual_slides] >>
                          ELSE <<>>)
                         \o (IF declared_notes # actual_notes
                             THEN << [type |-> "APP_NOTE_COUNT_MISMATCH",
                                      declared |-> declared_notes,
                                      actual |-> actual_notes] >>
                             ELSE <<>>),
                       exc |-> "none"]

\* lines 497-518: what the loop over the files does for one name
CommentIssues(name, author_ids) ==
    LET comment_root == DictGet(files, name)
        cms == FindAll(comment_root, "cm")
    IN  IF ~IsComment(name) THEN Appended(<<>>)
        ELSE IF FromStringRaises(comment_root) = "ParseError"
        THEN Appended(<< [type |-> "INVALID_COMMENT_XML", msg |-> "Invalid XML in",
                          path |-> name] >>)
        ELSE IF ~comment_root.wf THEN Raising(FromStringRaises(comment_root))
        ELSE Appended(Concat([j \in 1..Len(cms) |->
                LET author_id == Get(cms[j], "authorId")
                IN  IF Truthy(author_id) /\ author_id[1] \notin author_ids
                    THEN << [type |-> "COMMENT_INVALID_AUTHOR_ID",
                             file |-> name, author_id |-> author_id[1]] >>
                    ELSE <<>>]))

_validate_comments ==
    IF ~DictHas(files, CommentAuthorsXml) THEN Appended(<<>>)
    ELSE LET root == DictGet(files, CommentAuthorsXml)
             ids == TruthyIds(FindAll(root, "cmAuthor"))
             author_ids == {ids[i] : i \in 1..Len(ids)}
             names == Keys(files)
             f[i \in 0..Len(names)] ==
                 IF i = 0 THEN Appended(<<>>)
                 ELSE AndThen(f[i-1], CommentIssues(names[i], author_ids))
         IN  IF FromStringRaises(root) = "ParseError"
             THEN Appended(<< [type |-> "INVALID_COMMENT_AUTHORS_XML"] >>)
             ELSE IF ~root.wf THEN Raising(FromStringRaises(root))
             ELSE f[Len(names)]

\* _validate_references: the issues appended, in order, and the exception
\* that ends it (no check runs after one that raises)
_validate_references(seed) ==
    AndThen(AndThen(AndThen(AndThen(
        Appended(RelationIssues \o ContentTypeIssues(seed)
                     \o _validate_layout_master_chain),
        _validate_presentation_ids),
        _validate_noteslides),
        _validate_app_properties),
        _validate_comments)

(***************************************************************************)
(* The resolver as a one-step machine: the inputs are drawn in the initial *)
(* state, ResolveTarget applies the function.                              *)
(***************************************************************************)
Alphabet == {"/", ".", "a"}

\* the strings of at most n characters of the alphabet
RECURSIVE BoundedStr(_)
BoundedStr(n) ==
    IF n = 0 THEN {""}
    ELSE BoundedStr(n - 1) \cup {s \o c : s \in BoundedStr(n - 1), c \in Alphabet}

\* the inputs named in the documentation of the resolver
ExamplePairs ==
    { << "a/b/c.xml", "../d.xml" >>,
      << "", "x.xml" >>,
      << "a/b.xml", "/c.xml" >>,
      << "a.xml", "../d.xml" >>,
      << "a/b.xml", "../../../x" >> }

ResolverInputs ==
    (BoundedStr(MaxSourceLen) \X BoundedStr(MaxTargetLen)) \cup ExamplePairs

\* the names of the analyzer objects a run can hold
Analyzers == {"corrupt", "repaired", "corrupt_alone", "repaired_alone"}

\* the fields of an analyzer object
AnalyzerFields(z, p) ==
    [zip |-> z, pc |-> p, files |-> <<>>, hashes |-> <<>>, content_types |-> <<>>,
     default_types |-> <<>>, relations |-> <<>>, issues |-> <<>>, exc |-> "none",
     runs |-> 0, hist |-> <<>>]

\* no such object / the object whose fields are the analyzer variables
NoAnalyzer == AnalyzerFields(<<>>, "unused")
Executing  == AnalyzerFields(<<>>, "executing")

\* PPTXAnalyzer(path): the object after __init__
NewAnalyzer(z) == AnalyzerFields(z, "new")

\* the executing analyzer as an object
Self ==
    [zip |-> zip, pc |-> pc, files |-> files, hashes |-> hashes,
     content_types |-> content_types, default_types |-> default_types,
     relations |-> relations, issues |-> issues, exc |-> exc,
     runs |-> runs, hist |-> hist]

\* the analyzer object named n
Object(n) == IF n = cur THEN Self ELSE pool[n]

\* no call has returned yet
NothingReturned == [call |-> "none"]

\* no comparator, one analyzer
ComparatorIdle ==
    /\ cur = "corrupt"
    /\ pool = [n \in Analyzers |-> IF n = "corrupt" THEN Executing ELSE NoAnalyzer]
    /\ cpc = "none"
    /\ diffs = <<>>
    /\ returned = NothingReturned
    /\ cexc = "none"
    /\ compares = 0

AnalyzerIdle ==
    /\ zip = <<>>
    /\ pc = "unused"
    /\ files = <<>>
    /\ hashes = <<>>
    /\ content_types = <<>>
    /\ default_types = <<>>
    /\ relations = <<>>
    /\ issues = <<>>
    /\ exc = "none"
    /\ runs = 0
    /\ hashSeed = {}
    /\ hist = <<>>

InitResolve ==
    /\ AnalyzerIdle
    /\ \E p \in ResolverInputs : source = p[1] /\ target = p[2]
    /\ result = ""
    /\ called = FALSE
    /\ ComparatorIdle

ResolveTarget ==
    /\ ~called
    /\ pc = "unused"
    /\ result' = _resolve_target(source, target)
    /\ called' = TRUE
    /\ UNCHANGED <<source, target>>
    /\ UNCHANGED <<avars, hashSeed>>
    /\ UNCHANGED cvars

NextResolve == ResolveTarget

SpecResolve == InitResolve /\ [][NextResolve]_vars

(***************************************************************************)
(* The archives analysed: bounded families of packages, each varying the   *)
(* parts one group of checks reads.                                        *)
(***************************************************************************)
SeqsUpTo(S, n) == UNION {[1..k -> S] : k \in 0..n}

\* an optional archive entry: no entry for Absent
Absent == [absent |-> TRUE]

Entry(name, content) == IF content = Absent THEN <<>> ELSE << <<name, content>> >>

Xml == [wf |-> TRUE]
Binary(tag) == [wf |-> FALSE, bytes |-> tag]

Slide1    == "ppt/slides/slide1.xml"
Slide1Rels ==
    "ppt/slides/_rels/slide1.xml.rels"
Pic1      == "ppt/media/pic1.png"
StrayRels == "ppt/stray.rels"
BlobBin   == "ppt/blob"

GoodManifest ==
    [wf |-> TRUE,
     Default  |-> << [Extension |-> "xml", ContentType |-> "application/xml"],
                     [Extension |-> "rels", ContentType |-> "application/rels"],
                     [Extension |-> "png", ContentType |-> "image/png"] >>,
     Override |-> << [PartName |-> "/" \o PresentationXml,
                      ContentType |-> "application/presentation"] >>]

RelsDoc(rels) == [wf |-> TRUE, Relationship |-> rels]

RelElem(id, kind, tgt) == [Id |-> id, Type |-> RelType(kind), Target |-> tgt]

\* the targets of generated relationships of ppt/slides/slide1.xml
ToPic1    == "../media/pic1.png"
ToPic2    == "../media/pic2.png"
ToNowhere == "../.."
ToWeb     == "http://example"

SlideRelElems ==
    {RelElem(id, "image", t) : id \in {"rId1", "rId2"}, t \in {ToPic1, ToPic2, ToNowhere}}
    \cup {[Id |-> id, Type |-> RelType("hyperlink"), Target |-> ToWeb,
           TargetMode |-> "External"] : id \in {"rId1", "rId2"}}

RootRelsDocs ==
    { RelsDoc(<< RelElem("rId1", "officeDocument", PresentationXml) >>),
      RelsDoc(<< [Id |-> "rId1", Type |-> RelType("officeDocument")],
                 [Id |-> "rId1", Type |-> RelType("officeDocument"),
                  Target |-> PresentationXml, TargetMode |-> "Internal"] >>) }

\* packages that vary the relationships of one slide and of the root
RelationPackages ==
    { << <<ContentTypesXml, GoodManifest>>, <<RootRels, root>>,
         <<PresentationXml, Xml>>, <<Slide1, Xml>>,
         <<Slide1Rels, RelsDoc(rels)>>, <<Pic1, Binary("pic1")>> >> :
        root \in RootRelsDocs, rels \in SeqsUpTo(SlideRelElems, MaxRels) }

\* the targets of generated relationships of ppt/presentation.xml, by kind
PresRelElem(i, kind) ==
    RelElem(IF i = 1 THEN "rId1" ELSE IF i = 2 THEN "rId2" ELSE "rId3", kind,
            IF kind = "slide" THEN "slides/slide1.xml"
            ELSE IF kind = "image" THEN "media/pic1.png"
            ELSE IF kind = "notesSlide" THEN "notesSlides/notesSlide1.xml"
            ELSE IF kind = "theme" THEN "theme/theme1.xml"
            ELSE "slideLayouts/slideLayout1.xml")

\* descriptors of the presentation for the validation: the kind that belongs
\* there and two that do not
PresRelsDocs ==
    { RelsDoc([i \in 1..Len(kinds) |-> PresRelElem(i, kinds[i])]) :
        kinds \in SeqsUpTo({"slide", "image", "slideLayout"}, MaxRels) }

\* descriptors of the presentation for the comparison, compared with one
\* that holds a slide relationship: two kinds rated CRITICAL (slideLayout,
\* notesSlide) and two rated HIGH (slide, theme) occur with counts that differ
ComparedPresRelsDocs ==
    { RelsDoc([i \in 1..Len(kinds) |-> PresRelElem(i, kinds[i])]) :
        kinds \in SeqsUpTo({"slideLayout", "notesSlide", "theme"}, MaxRels) }

SldId(id) == [id |-> id, rid |-> "rId1"]

\* <p:sldId id=... r:id=.../>
SldIdRef(id, rid) == [id |-> id, rid |-> rid]

\* an element of the tree: its attributes, its tag and its child elements
Elem(tag, attrs, kids) ==
    [n \in DOMAIN attrs \cup {"tag", "kids"} |->
        IF n = "tag" THEN tag ELSE IF n = "kids" THEN kids ELSE attrs[n]]

\* <p:sldIdLst> around p:sldId elements with the attributes given
SldIdLst(els) ==
    Elem("sldIdLst", <<>>, [i \in 1..Len(els) |-> Elem("sldId", els[i], <<>>)])

\* <p:section name=... id=...> around the elements given
Section(name, id, kids) == Elem("section", [name |-> name, id |-> id], kids)

\* <p:sectionLst> around the sections given
SectionLst(sections) == Elem("sectionLst", <<>>, sections)

\* a presentation: its slide-id lists and section lists in document order,
\* and its slide masters
Presentation(kids, masters) ==
    [wf |-> TRUE, kids |-> kids, sldMasterIdLst |-> masters]

\* documents in which the paths of the slide ids and of the sections meet:
\* a second slide-id list after the sections, a second section list before
\* the slide-id list, a section list inside a section
TwoOwnLists ==
    Presentation(<< SldIdLst(<< SldIdRef("256", "rId1") >>),
                    SectionLst(<< Section("Intro", "{S1}",
                        << SldIdLst(<< SldIdRef("300", "rId1"),
                                       SldIdRef("301", "rId2") >>) >>) >>),
                    SldIdLst(<< SldIdRef("257", "rId2") >>) >>,
                 << SldId("2147483648") >>)

TwoSectionLsts ==
    Presentation(<< SectionLst(<< Section("Intro", "{S1}",
                        << SldIdLst(<< SldIdRef("300", "rId1"),
                                       SldIdRef("301", "rId2") >>) >>) >>),
                    SldIdLst(<< SldIdRef("256", "rId1") >>),
                    SectionLst(<< Section("Extra", "{S2}",
                        << SldIdLst(<< SldIdRef("999", "rId2") >>) >>) >>) >>,
                 << SldId("2147483648") >>)

NestedSections ==
    Presentation(<< SldIdLst(<< SldIdRef("256", "rId1") >>),
                    SectionLst(<< Section("Intro", "{S1}",
                        << SldIdLst(<< SldIdRef("999", "rId2") >>),
                           SectionLst(<< Section("Inner", "{S2}",
                               << SldIdLst(<< SldIdRef("257", "rId1") >>) >>) >>) >>) >>) >>,
                 << SldId("2147483648") >>)

PresentationDocs ==
    { Presentation(<< SldIdLst([i \in 1..Len(ids) |-> SldId(ids[i])]) >> \o secs,
                   [i \in 1..Len(mids) |-> SldId(mids[i])]) :
        ids  \in SeqsUpTo({"256", "257"}, MaxSlideIds),
        mids \in SeqsUpTo({"2147483648"}, MaxSlideIds),
        secs \in {<<>>} \cup
                 { << SectionLst(<< Section("Intro", "{S1}",
                          << SldIdLst([i \in 1..Len(refs) |-> [id |-> refs[i]]]) >>) >>) >> :
                     refs \in SeqsUpTo({"256", "999"}, MaxSectionRefs) } }
    \cup
    \* slide ids that are the text <None> or empty, and p:sldId elements
    \* that carry no id
    { Presentation(<< SldIdLst(els),
                      SectionLst(<< Section("Intro", "{S1}",
                          << SldIdLst(<< [id |-> "<None>"], [rid |-> "rId1"] >>) >>) >>) >>,
                   <<>>) :
        els \in SeqsUpTo({SldId("<None>"), SldId(""), [rid |-> "rId2"]}, MaxSlideIds) }
    \cup
    \* the sections before the presentation's own list
    { Presentation(<< SectionLst(<< Section("Intro", "{S1}",
                          << SldIdLst(<< [id |-> "256"] >>) >>) >>),
                      SldIdLst(<< SldId(id) >>) >>,
                   <<>>) : id \in {"256", "257"} }
    \cup { TwoOwnLists, TwoSectionLsts, NestedSections }

SimplePresentation ==
    Presentation(<< SldIdLst(<< SldId("256") >>) >>, << SldId("2147483648") >>)

\* packages that vary the presentation part and its relationship descriptor
PresentationPackages ==
    { << <<ContentTypesXml, GoodManifest>>, <<PresentationXml, pres>>,
         <<PresentationRels, RelsDoc(<< PresRelElem(1, "slide") >>)>>,
         <<Slide1, Xml>> >> : pres \in PresentationDocs }
    \cup
    { << <<ContentTypesXml, GoodManifest>> >> \o Entry(PresentationXml, pres)
         \o << <<PresentationRels, rels>>, <<Slide1, Xml>>, <<Pic1, Binary("pic1")>> >> :
        pres \in {Absent, Malformed, SimplePresentation}, rels \in PresRelsDocs }

AppDoc(slides) == [wf |-> TRUE, Slides |-> << [text |-> slides] >>]

\* <Slides/>: an element without text
AppDocNoText == [wf |-> TRUE, Slides |-> << [n \in {} |-> n] >>]

\* packages that vary what can go wrong while the model is built
BuildPackages ==
    { Entry(ContentTypesXml, manifest)
         \o Entry(PresentationRels, presrels)
         \o Entry(StrayRels, stray)
         \o << <<Slide1, Xml>>, <<BlobBin, Binary("blob")>> >>
         \o Entry(AppXml, app) :
        manifest \in {Absent, Malformed, GoodManifest},
        presrels \in {Absent, Malformed, RelsDoc(<< PresRelElem(1, "image") >>)},
        stray    \in {Absent, Malformed, RelsDoc(<<>>)},
        app      \in {Absent, Malformed, [wf |-> TRUE], AppDocNoText,
                      AppDoc("1"), AppDoc("2"), AppDoc("abc")} }

Comment1 == "ppt/comments/comment1.xml"
Comment2 == "ppt/comments/comment2.xml"

\* ppt/commentAuthors.xml: absent, unparsable, one author "0", an author
\* element without an id
AuthorsDocs ==
    { Absent, Malformed,
      [wf |-> TRUE, cmAuthor |-> << [id |-> "0", name |-> "Ann"] >>],
      [wf |-> TRUE, cmAuthor |-> << [name |-> "Bob"] >>] }

\* p:cm elements: by a listed author, by an unlisted one, without authorId
CmElems == { [authorId |-> "0", idx |-> "1"], [authorId |-> "7", idx |-> "2"],
             [idx |-> "3"] }

CommentDocs ==
    {Malformed} \cup {[wf |-> TRUE, cm |-> cms] : cms \in SeqsUpTo(CmElems, MaxComments)}

\* packages that vary the comment parts and the authors part
CommentPackages ==
    { << <<ContentTypesXml, GoodManifest>> >>
         \o Entry(CommentAuthorsXml, authors)
         \o << <<Comment1, c1>> >>
         \o Entry(Comment2, c2) :
        authors \in AuthorsDocs, c1 \in CommentDocs,
        c2 \in {Absent, [wf |-> TRUE, cm |-> << [authorId |-> "7", idx |-> "1"] >>]} }

\* docProps/app.xml declaring a slide count and a notes count
AppDocNotes(slides, notes) ==
    [wf |-> TRUE, Slides |-> << [text |-> slides] >>, Notes |-> << [text |-> notes] >>]

NotesSlide1 ==
    "ppt/notesSlides/notesSlide1.xml"

\* one slide, one or no notes slide, and declared counts right and wrong,
\* some between blanks.  The blanks of the generated texts are ASCII ones:
\* TLC keeps one byte of each character of a string when it writes a state
\* to its queue on disk, so a state cannot carry U+0085 or U+00A0 safely.
AppPackages ==
    { Entry(ContentTypesXml, GoodManifest)
         \o << <<Slide1, Xml>> >>
         \o Entry(NotesSlide1, notes)
         \o << <<AppXml, AppDocNotes(s, n)>> >> :
        notes \in {Absent, Xml},
        s \in {"0", "1", "2", "10", "01", "-1", " 1\n", "1_0"},
        n \in {"0", "1", "abc", "\t0 "} }

\* the descriptor of a part ppt/draft.rels.xml, whose name holds ".rels" twice
DraftRels == "ppt/_rels/draft.rels.xml.rels"

\* packages whose descriptors are well-formed or not, one by one
DescriptorPackages ==
    { << <<ContentTypesXml, GoodManifest>>, <<RootRels, root>>,
         <<PresentationXml, SimplePresentation>>, <<PresentationRels, presrels>> >>
         \o Entry(Slide1Rels, sliderels)
         \o << <<Slide1, Xml>>, <<Pic1, Binary("pic1")>> >>
         \o Entry(DraftRels, draftrels) :
        root      \in {Malformed,
                       RelsDoc(<< RelElem("rId1", "officeDocument", PresentationXml) >>)},
        presrels  \in {Malformed, RelsDoc(<< PresRelElem(1, "slide") >>)},
        sliderels \in {Absent, Malformed, RelsDoc(<< RelElem("rId1", "image", ToPic1) >>)},
        draftrels \in {Absent, RelsDoc(<< RelElem("rId1", "image", "media/pic1.png") >>)} }

\* part names whose content type is looked up in different ways
PicBak    == "ppt/media/pic1.png.bak"
RootFoo   == "_rels/foo.xml"

\* a manifest that also overrides the part without extension
BlobManifest ==
    [GoodManifest EXCEPT !.Override =
        Append(@, [PartName |-> "/" \o BlobBin, ContentType |-> "application/blob"])]

\* packages that vary the manifest over parts with an extension default, an
\* override, an unknown extension, no extension, and one under /_rels
ContentTypePackages ==
    { Entry(ContentTypesXml, manifest)
         \o << <<PresentationXml, SimplePresentation>>, <<Slide1, Xml>>,
               <<BlobBin, Binary("blob")>>, <<PicBak, Binary("pic1")>> >>
         \o Entry(RootFoo, foo) :
        manifest \in {Absent, GoodManifest, BlobManifest, [wf |-> TRUE]},
        foo \in {Absent, Xml} }

\* slide layouts and their descriptors
SlideLayout1 == "ppt/slideLayouts/slideLayout1.xml"
SlideLayout2 == "ppt/slideLayouts/slideLayout2.xml"
SlideLayout1Rels ==
    "ppt/slideLayouts/_rels/slideLayout1.xml.rels"

\* the relationship namespace of the strict conformance class
StrictRelNS == "http://purl.oclc.org/ooxml/officeDocument/relationships"

LayoutRelElems ==
    { RelElem("rId1", "slideMaster",
              "../slideMasters/slideMaster1.xml"),
      RelElem("rId2", "theme", "../theme/theme1.xml"),
      RelElem("rId3", "slideLayout", "slideLayout2.xml"),
      RelElem("rId4", "slideMasterX",
              "../slideMasters/slideMaster1.xml"),
      [Id |-> "rId5", Type |-> StrictRelNS \o "/slideMaster",
       Target |-> "../slideMasters/slideMaster1.xml"] }

\* one layout whose descriptor varies, and perhaps a second without descriptor
LayoutPackages ==
    { << <<ContentTypesXml, GoodManifest>>, <<SlideLayout1, Xml>> >>
         \o Entry(SlideLayout1Rels, d)
         \o Entry(SlideLayout2, second) :
        d \in {Absent, Malformed} \cup {RelsDoc(r) : r \in SeqsUpTo(LayoutRelElems, MaxRels)},
        second \in {Absent, Xml} }

NotesSlide1Rels ==
    "ppt/notesSlides/_rels/notesSlide1.xml.rels"

NotesRelElems ==
    { RelElem("rId1", "slide", "../slides/slide1.xml"),
      RelElem("rId1", "slideLayout",
              "../slideLayouts/slideLayout1.xml"),
      RelElem("rId1", "notesMaster",
              "../notesMasters/notesMaster1.xml"),
      RelElem("rId1", "slideUpdateInfo", "../slideUpdateInfo.xml"),
      [Id |-> "rId2", Type |-> RelType("notesMaster"), Target |-> ToWeb,
       TargetMode |-> "External"] }

\* one notes slide, with or without a colour-map override citing rId1, and
\* its relationships
NotesPackages ==
    { << <<ContentTypesXml, GoodManifest>>, <<Slide1, Xml>>, <<NotesSlide1, doc>> >>
         \o Entry(NotesSlide1Rels, d) :
        doc \in {Malformed, Xml, [wf |-> TRUE, clrMapOvr |-> << [rid |-> "rId1"] >>]},
        d \in {Absent} \cup {RelsDoc(r) : r \in SeqsUpTo(NotesRelElems, MaxRels)} }

NotesSlide2 ==
    "ppt/notesSlides/notesSlide2.xml"

\* bytes whose XML declaration names an encoding ET.fromstring does not read
EncodingDocs == {UnknownEncoding, MultiByteEncoding}

\* packages with such bytes in each part the analyzer parses, after parts
\* that give issues and before parts that would
EncodingPackages ==
    { << <<ContentTypesXml, e>>, <<Slide1, Xml>> >> : e \in EncodingDocs }
    \cup
    { << <<ContentTypesXml, GoodManifest>>, <<RootRels, first>>,
         <<PresentationXml, SimplePresentation>>, <<PresentationRels, second>>,
         <<Slide1, Xml>> >> :
        first, second \in EncodingDocs \cup
            {Malformed, RelsDoc(<< RelElem("rId1", "slide", "slides/slide1.xml") >>)} }
    \cup
    { << <<ContentTypesXml, GoodManifest>>, <<PresentationXml, e>>,
         <<PresentationRels, RelsDoc(<< PresRelElem(1, "image") >>)>>,
         <<Slide1, Xml>> >> : e \in EncodingDocs }
    \cup
    { << <<ContentTypesXml, GoodManifest>>, <<Slide1, Xml>>,
         <<NotesSlide1, first>>, <<NotesSlide2, second>> >> :
        first, second \in EncodingDocs \cup {Malformed, Xml} }
    \cup
    { << <<ContentTypesXml, GoodManifest>>, <<Slide1, Xml>>, <<NotesSlide1, Xml>>,
         <<AppXml, e>> >> : e \in EncodingDocs }
    \cup
    { << <<ContentTypesXml, GoodManifest>> >>
         \o Entry(CommentAuthorsXml, authors)
         \o << <<Comment1, c1>>, <<Comment2, c2>> >> :
        authors \in {Absent, UnknownEncoding, [wf |-> TRUE, cmAuthor |-> << [id |-> "0"] >>]},
        c1, c2 \in EncodingDocs \cup
            {Malformed, [wf |-> TRUE, cm |-> << [authorId |-> "7", idx |-> "1"] >>]} }

Inputs ==
    BuildPackages \cup NotesPackages \cup LayoutPackages \cup ContentTypePackages
    \cup DescriptorPackages \cup AppPackages \cup RelationPackages
    \cup PresentationPackages \cup CommentPackages \cup EncodingPackages

(***************************************************************************)
(* The analyzer as a state machine.  pc is the caller's position:          *)
(*   "new" after __init__, "loaded", "ct", "rels" between the steps of     *)
(*   analyze(), "done" after _validate_references() returned, "raised"     *)
(*   after an exception left the call.                                     *)
(***************************************************************************)
ResolverIdle ==
    /\ source = ""
    /\ target = ""
    /\ result = ""
    /\ called = FALSE

\* __init__
Init ==
    /\ zip \in Inputs
    /\ hashSeed = {}
    /\ pc = "new"
    /\ files = <<>>
    /\ hashes = <<>>
    /\ content_types = <<>>
    /\ default_types = <<>>
    /\ relations = <<>>
    /\ issues = <<>>
    /\ exc = "none"
    /\ runs = 0
    /\ hist = <<>>
    /\ ResolverIdle
    /\ ComparatorIdle

\* analyze() is called (again) and runs _load_files
LoadFiles ==
    /\ pc = "new" \/ (pc = "done" /\ runs < MaxRuns)
    /\ files' = LoadedFiles
    /\ hashes' = LoadedHashes
    /\ pc' = "loaded"
    /\ runs' = runs + 1
    /\ hist' = Append(hist, [call |-> "analyze", start |-> Len(issues),
                             vstart |-> -1, end |-> -1])
    /\ UNCHANGED <<zip, content_types, default_types, relations, issues, exc,
                   hashSeed, rvars, cvars>>

\* _parse_content_types
ParseContentTypes ==
    /\ pc = "loaded"
    /\ IF ~DictHas(files, ContentTypesXml)
       THEN /\ issues' = Append(issues, [type |-> "CRITICAL",
                                         msg |-> "Missing [Content_Types].xml"])
            /\ pc' = "ct"
            /\ UNCHANGED <<content_types, default_types, exc>>
       ELSE IF ~DictGet(files, ContentTypesXml).wf
       THEN /\ pc' = "raised"
            /\ exc' = FromStringRaises(DictGet(files, ContentTypesXml))
            /\ UNCHANGED <<content_types, default_types, issues>>
       ELSE /\ default_types' = ParsedDefaults(DictGet(files, ContentTypesXml))
            /\ content_types' = ParsedOverrides(DictGet(files, ContentTypesXml))
            /\ pc' = "ct"
            /\ UNCHANGED <<issues, exc>>
    /\ UNCHANGED <<zip, files, hashes, relations, runs, hashSeed, hist, rvars, cvars>>

\* _parse_all_rels
ParseAllRels ==
    /\ pc = "ct"
    /\ relations' = _parse_all_rels.relations
    /\ issues' = _parse_all_rels.issues
    /\ exc' = _parse_all_rels.exc
    /\ pc' = IF _parse_all_rels.exc # "none" THEN "raised" ELSE "rels"
    /\ UNCHANGED <<zip, files, hashes, content_types, default_types, runs,
                   hashSeed, hist, rvars, cvars>>

\* _validate_references: as the last step of analyze(), or called again on
\* an analyzed package
ValidateReferences ==
    /\ pc = "rels" \/ (pc = "done" /\ runs < MaxRuns)
    /\ \E seed \in Commit(hashSeed, {AllPartsLoop}) :
          \E run \in {_validate_references(seed)} :
              /\ hashSeed' = seed
              /\ issues' = issues \o run.issues
              /\ exc' = run.exc
    /\ pc' = IF exc' # "none" THEN "raised" ELSE "done"
    /\ runs' = IF pc = "done" THEN runs + 1 ELSE runs
    /\ hist' = IF pc = "done"
               THEN Append(hist, [call |-> "validate", start |-> Len(issues),
                                  vstart |-> Len(issues), end |-> Len(issues')])
               ELSE [hist EXCEPT ![Len(hist)] =
                        [@ EXCEPT !.vstart = Len(issues), !.end = Len(issues')]]
    /\ UNCHANGED <<zip, files, hashes, content_types, default_types, relations,
                   rvars, cvars>>

Next == LoadFiles \/ ParseContentTypes \/ ParseAllRels \/ ValidateReferences

Spec == Init /\ [][Next]_vars

(***************************************************************************)
(* PPTXAnalyzer: the data extractors, on an analyzer object a.             *)
(***************************************************************************)
IsSlideMaster(name) ==
    MatchNumbered(name, "ppt/slideMasters/", "slideMaster")

\* [{'id': e.get('id'), 'rid': e.get('{r}id')} for e in els]
IdRidList(els) ==
    [i \in 1..Len(els) |-> [id  |-> Get(els[i], "id"),
                            rid |-> Get(els[i], "rid")]]

\* lines 558-566: one entry per p:section
SectionData(sect) ==
    [name |-> Attr(sect, "name", ""),
     id |-> Attr(sect, "id", ""),
     slideIds |-> [j \in 1..Len(FindAllSldId(sect)) |->
                      Get(FindAllSldId(sect)[j], "id")]]

\* what an extractor leaves behind: the value it returns, or the exception
\* that ends it ("none" when it returned)
Returned(data) == [data |-> data, exc |-> "none"]

\* get_presentation_data: the dict returned, or the exception raised
get_presentation_data(a) ==
    LET empty == [slideIdList |-> <<>>, slideMasterIdList |-> <<>>,
                  notesMasterIdList |-> <<>>, sections |-> <<>>]
    IN  IF ~DictHas(a.files, PresentationXml) THEN Returned(empty)
        ELSE LET root == DictGet(a.files, PresentationXml)
                 sects == FindAllSection(root)
             IN  IF FromStringRaises(root) = "ParseError" THEN Returned(empty)
                 ELSE IF ~root.wf THEN [data |-> empty, exc |-> FromStringRaises(root)]
                 ELSE Returned(
                      [slideIdList |-> IdRidList(FindAllSldId(root)),
                       slideMasterIdList |-> IdRidList(FindAll(root, "sldMasterIdLst")),
                       notesMasterIdList |-> IdRidList(FindAll(root, "notesMasterIdLst")),
                       sections |-> [i \in 1..Len(sects) |-> SectionData(sects[i])]])

\* int(e.text) if e is not None and e.text else 0, and whether int() raises
CountOf(text) == IF Truthy(text) THEN IntOf(text[1]) ELSE 0

CountRaises(text) == Truthy(text) /\ ~IsIntText(text[1])

\* get_app_properties: the dict returned, or the exception raised
get_app_properties(a) ==
    LET zero == [slides |-> 0, notes |-> 0, hidden_slides |-> 0]
    IN  IF ~DictHas(a.files, AppXml) THEN Returned(zero)
        ELSE LET root   == DictGet(a.files, AppXml)
                 slides == ElemText(root, "Slides")
                 notes  == ElemText(root, "Notes")
                 hidden == ElemText(root, "HiddenSlides")
             IN  IF FromStringRaises(root) = "ParseError" THEN Returned(zero)
                 ELSE IF ~root.wf THEN [data |-> zero, exc |-> FromStringRaises(root)]
                 ELSE IF CountRaises(slides) \/ CountRaises(notes) \/ CountRaises(hidden)
                 THEN [data |-> zero, exc |-> "ValueError"]
                 ELSE [data |-> [slides |-> CountOf(slides), notes |-> CountOf(notes),
                                 hidden_slides |-> CountOf(hidden)],
                       exc |-> "none"]

\* next((r for r in rels if P(r)), None), then r['resolved'] if r else None
FirstResolved(rels, P(_)) ==
    IF \E i \in 1..Len(rels) : P(rels[i])
    THEN << rels[CHOOSE i \in 1..Len(rels) :
                    P(rels[i]) /\ \A j \in 1..(i - 1) : ~P(rels[j])].resolved >>
    ELSE None

\* the first name of a list whose bytes ET.fromstring rejects with an
\* exception other than ET.ParseError: the exception, "none" without one
FirstRaising(parts, names) ==
    LET Raises(name) == FromStringRaises(DictGet(parts, name)) \notin {"none", "ParseError"}
        raising == SelectSeq(names, Raises)
    IN  IF raising = <<>> THEN "none"
        ELSE FromStringRaises(DictGet(parts, raising[1]))

\* get_noteslides_data: dict notes-slide name -> its two targets, or the
\* exception raised
get_noteslides_data(a) ==
    LET names == SelectSeq(Keys(a.files), IsNotesSlide)
        IsSlideRel(r) == ContainsWord(r.type, "slide") /\ r.mode # "External"
        IsMasterRel(r) == ContainsWord(r.type, "notesMaster")
    IN  [data |->
            Concat([i \in 1..Len(names) |->
                LET name == names[i]
                    rels == DictGetOr(a.relations, name, <<>>)
                IN  IF ~DictGet(a.files, name).wf THEN <<>>
                    ELSE << <<name, [slide_target  |-> FirstResolved(rels, IsSlideRel),
                                     master_target |-> FirstResolved(rels, IsMasterRel)]>> >>]),
         exc |-> FirstRaising(a.files, names)]

\* get_comments_data: the authors listed and, per parsable comment part, its
\* comments, or the exception raised
get_comments_data(a) ==
    LET names == SelectSeq(Keys(a.files), IsComment)
        aroot == DictGet(a.files, CommentAuthorsXml)
        auths == FindAll(aroot, "cmAuthor")
    IN  [data |->
          [authors |->
            IF DictHas(a.files, CommentAuthorsXml) /\ aroot.wf
            THEN [i \in 1..Len(auths) |->
                     [id |-> Get(auths[i], "id"),
                      name |-> Get(auths[i], "name"),
                      initials |-> Get(auths[i], "initials")]]
            ELSE <<>>,
           comments |->
            Concat([i \in 1..Len(names) |->
                LET name == names[i]
                    cms  == FindAll(DictGet(a.files, name), "cm")
                IN  IF ~DictGet(a.files, name).wf THEN <<>>
                    ELSE << <<name, [j \in 1..Len(cms) |->
                                        [authorId |-> Get(cms[j], "authorId"),
                                         dt |-> Get(cms[j], "dt"),
                                         idx |-> Get(cms[j], "idx")]]>> >>])],
         exc |-> IF DictHas(a.files, CommentAuthorsXml)
                    /\ FromStringRaises(aroot) \notin {"none", "ParseError"}
                 THEN FromStringRaises(aroot)
                 ELSE FirstRaising(a.files, names)]

\* get_hash_map: dict fingerprint -> names carrying it, in insertion order
get_hash_map(a) ==
    LET f[i \in 0..Len(a.hashes)] ==
            IF i = 0 THEN <<>>
            ELSE DictSet(f[i-1], a.hashes[i][2],
                         Append(DictGetOr(f[i-1], a.hashes[i][2], <<>>), a.hashes[i][1]))
    IN  f[Len(a.hashes)]

(***************************************************************************)
(* PPTXComparator: each sub-comparison is the list of diffs it appends, a  *)
(* function of the corrupt analyzer c and the repaired analyzer r, and,    *)
(* where it can raise, the exception that ends it.  The 'msg' of a diff is *)
(* a formatting of its other fields and is left out.                       *)
(***************************************************************************)
\* what a comparison leaves behind: the diffs it appended, and the exception
\* that ended it ("none" when it returned)
Diffs(list) == [diffs |-> list, exc |-> "none"]

Raised(e) == [diffs |-> <<>>, exc |-> e]

\* one comparison after another: nothing runs after an exception
ThenDiffs(before, next) ==
    IF before.exc # "none" THEN before
    ELSE [diffs |-> before.diffs \o next.diffs, exc |-> next.exc]

\* two extractor calls, the corrupt side first: the exception that leaves
FirstExc(c_data, r_data) ==
    IF c_data.exc # "none" THEN c_data.exc ELSE r_data.exc

\* d1 == d2 for two dicts: the same items, whatever their order
DictEq(d1, d2) == SetOf(d1) = SetOf(d2)

\* {key(x): val(x) for x in s}: a later item replaces the value of its key
DictOf(s, key(_), val(_)) ==
    LET f[i \in 0..Len(s)] ==
            IF i = 0 THEN <<>> ELSE DictSet(f[i-1], key(s[i]), val(s[i]))
    IN  f[Len(s)]

\* lines 687-690: only_corrupt = c_files - r_files, only_repaired = r_files - c_files
OnlyCorruptLoop(c, r) ==
    Loop("only_corrupt", << Keys(c.files), Keys(r.files) >>,
         SetOf(Keys(c.files)) \ SetOf(Keys(r.files)))

OnlyRepairedLoop(c, r) ==
    Loop("only_repaired", << Keys(c.files), Keys(r.files) >>,
         SetOf(Keys(r.files)) \ SetOf(Keys(c.files)))

\* a variant that gives the added parts the higher severity
_compare_file_lists_AddedHigh(c, r, seed) ==
    LET only_corrupt  == SetOrder(OnlyCorruptLoop(c, r), seed)
        only_repaired == SetOrder(OnlyRepairedLoop(c, r), seed)
    IN  [i \in 1..Len(only_corrupt) |->
            [type |-> "FILE_REMOVED", severity |-> "MEDIUM", file |-> only_corrupt[i]]]
        \o [i \in 1..Len(only_repaired) |->
            [type |-> "FILE_ADDED", severity |-> "HIGH", file |-> only_repaired[i]]]

_compare_file_lists(c, r, seed) ==
    LET only_corrupt  == SetOrder(OnlyCorruptLoop(c, r), seed)
        only_repaired == SetOrder(OnlyRepairedLoop(c, r), seed)
    IN  [i \in 1..Len(only_corrupt) |->
            [type |-> "FILE_REMOVED", severity |-> "HIGH", file |-> only_corrupt[i]]]
        \o [i \in 1..Len(only_repaired) |->
            [type |-> "FILE_ADDED", severity |-> "MEDIUM", file |-> only_repaired[i]]]

_compare_content_types(c, r) ==
    LET c_ct == c.content_types
        r_ct == r.content_types
    IN  Concat([i \in 1..Len(c_ct) |->
            LET part  == c_ct[i][1]
                ctype == c_ct[i][2]
            IN  IF ~DictHas(r_ct, part)
                THEN << [type |-> "CONTENT_TYPE_REMOVED", severity |-> "HIGH",
                         part |-> part] >>
                ELSE IF DictGet(r_ct, part) # ctype
                THEN << [type |-> "CONTENT_TYPE_CHANGED", severity |-> "MEDIUM",
                         part |-> part, corrupt |-> ctype,
                         repaired |-> DictGet(r_ct, part)] >>
                ELSE <<>>])

\* {r['id']: r for r in rels}
RelMap(rels) ==
    LET Id(x) == x.id
        Itself(x) == x
    IN  DictOf(rels, Id, Itself)

\* lines 739-761: what the loop over all_sources appends for one source
RelationDiffs(c, r, src) ==
    LET c_rel_map == RelMap(DictGetOr(c.relations, src, <<>>))
        r_rel_map == RelMap(DictGetOr(r.relations, src, <<>>))
    IN  Concat([i \in 1..Len(c_rel_map) |->
            LET rid == c_rel_map[i][1]
                rel == c_rel_map[i][2]
            IN  IF ~DictHas(r_rel_map, rid)
                THEN << [type |-> "RELATION_REMOVED", severity |-> "HIGH",
                         source |-> src, rid |-> rid, target |-> rel.target] >>
                ELSE IF DictGet(r_rel_map, rid).target # rel.target
                THEN << [type |-> "RELATION_TARGET_CHANGED", severity |-> "HIGH",
                         source |-> src, rid |-> rid,
                         corrupt_target |-> rel.target,
                         repaired_target |-> DictGet(r_rel_map, rid).target] >>
                ELSE <<>>])

\* line 737: all_sources = set(c_rels.keys()) | set(r_rels.keys())
AllSourcesLoop(c, r) ==
    Loop("all_sources", << Keys(c.relations), Keys(r.relations) >>,
         {src \in SetOf(Keys(c.relations)) \cup SetOf(Keys(r.relations)) :
             RelationDiffs(c, r, src) # <<>>})

_compare_relations(c, r, seed) ==
    LET all_sources == SetOrder(AllSourcesLoop(c, r), seed)
    IN  Concat([s \in 1..Len(all_sources) |-> RelationDiffs(c, r, all_sources[s])])

\* group_by_type: dict kind -> the relations of that kind, kinds in order of
\* first occurrence
group_by_type(rels) ==
    LET f[i \in 0..Len(rels)] ==
            IF i = 0 THEN <<>>
            ELSE DictSet(f[i-1], RelTypeName(rels[i]),
                         Append(DictGetOr(f[i-1], RelTypeName(rels[i]), <<>>), rels[i]))
    IN  f[Len(rels)]

\* [r['target'] for r in rels]
Targets(rels) == [i \in 1..Len(rels) |-> rels[i].target]

\* a variant that leaves notesSlide out of the kinds rated CRITICAL
CountSeverity_NotesSlideHigh(rel_type) ==
    IF rel_type \in {"image", "slideLayout"} THEN "CRITICAL" ELSE "HIGH"

\* the severity of a count change of one kind
CountSeverity(rel_type) ==
    IF rel_type \in {"image", "slideLayout", "notesSlide"}
    THEN "CRITICAL" ELSE "HIGH"

\* lines 804-819: what the loop over all_types appends for one kind
TypeCountDiff(c_by_type, r_by_type, rel_type) ==
    LET c_of == DictGetOr(c_by_type, rel_type, <<>>)
        r_of == DictGetOr(r_by_type, rel_type, <<>>)
    IN  IF Len(c_of) # Len(r_of)
        THEN << [type |-> "PRES_RELS_TYPE_COUNT_CHANGED",
                 severity |-> CountSeverity(rel_type),
                 rel_type |-> rel_type,
                 corrupt_count |-> Len(c_of),
                 repaired_count |-> Len(r_of),
                 corrupt_targets |-> Targets(c_of),
                 repaired_targets |-> Targets(r_of)] >>
        ELSE <<>>

\* line 802: all_types = set(c_by_type.keys()) | set(r_by_type.keys())
AllTypesLoop(c, r) ==
    LET c_by_type == group_by_type(DictGetOr(c.relations, PresentationXml, <<>>))
        r_by_type == group_by_type(DictGetOr(r.relations, PresentationXml, <<>>))
    IN  Loop("all_types", << Keys(c_by_type), Keys(r_by_type) >>,
             {t \in SetOf(Keys(c_by_type)) \cup SetOf(Keys(r_by_type)) :
                 TypeCountDiff(c_by_type, r_by_type, t) # <<>>})

_compare_presentation_rels_detailed(c, r, seed) ==
    LET c_rels == DictGetOr(c.relations, PresentationXml, <<>>)
        r_rels == DictGetOr(r.relations, PresentationXml, <<>>)
        c_by_type == group_by_type(c_rels)
        r_by_type == group_by_type(r_rels)
        all_types == SetOrder(AllTypesLoop(c, r), seed)
    IN  Concat([i \in 1..Len(all_types) |->
            TypeCountDiff(c_by_type, r_by_type, all_types[i])])
        \o (IF Len(c_rels) # Len(r_rels)
            THEN << [type |-> "PRES_RELS_TOTAL_COUNT_CHANGED", severity |-> "HIGH",
                     corrupt_count |-> Len(c_rels),
                     repaired_count |-> Len(r_rels)] >>
            ELSE <<>>)

\* {s['rid']: s['id'] for s in slideIdList}
SlideDict(list) ==
    LET Rid(x) == x.rid
        Id(x) == x.id
    IN  DictOf(list, Rid, Id)

_compare_presentation_xml(c, r, seed) ==
    LET c_pres == get_presentation_data(c)
        r_pres == get_presentation_data(r)
        c_slides == SlideDict(c_pres.data.slideIdList)
        r_slides == SlideDict(r_pres.data.slideIdList)
    IN  IF FirstExc(c_pres, r_pres) # "none" THEN Raised(FirstExc(c_pres, r_pres))
        ELSE Diffs((IF ~DictEq(c_slides, r_slides)
                    THEN << [type |-> "SLIDE_ID_LIST_CHANGED", severity |-> "CRITICAL",
                             corrupt |-> c_slides, repaired |-> r_slides] >>
                    ELSE <<>>)
                   \o _compare_presentation_rels_detailed(c, r, seed))

\* {s['name']: s for s in sections}
SectionDict(sections) ==
    LET Name(x) == x.name
        Itself(x) == x
    IN  DictOf(sections, Name, Itself)

_compare_sections(c, r) ==
    LET c_pres == get_presentation_data(c)
        r_pres == get_presentation_data(r)
        c_sections == SectionDict(c_pres.data.sections)
        r_sections == SectionDict(r_pres.data.sections)
    IN  IF FirstExc(c_pres, r_pres) # "none" THEN Raised(FirstExc(c_pres, r_pres))
        ELSE Diffs(
        Concat([i \in 1..Len(c_sections) |->
            IF ~DictHas(r_sections, c_sections[i][1])
            THEN << [type |-> "SECTION_REMOVED", severity |-> "HIGH",
                     section_name |-> c_sections[i][1]] >>
            ELSE <<>>])
        \o Concat([i \in 1..Len(r_sections) |->
            IF ~DictHas(c_sections, r_sections[i][1])
            THEN << [type |-> "SECTION_ADDED", severity |-> "MEDIUM",
                     section_name |-> r_sections[i][1]] >>
            ELSE <<>>])
        \o Concat([i \in 1..Len(c_sections) |->
            LET name  == c_sections[i][1]
                c_ids == SetOf(c_sections[i][2].slideIds)
                r_ids == SetOf(DictGet(r_sections, name).slideIds)
            IN  IF DictHas(r_sections, name) /\ c_ids # r_ids
                THEN << [type |-> "SECTION_SLIDES_CHANGED", severity |-> "HIGH",
                         section_name |-> name,
                         corrupt_slides |-> c_ids, repaired_slides |-> r_ids] >>
                ELSE <<>>]))

\* lines 900-925: what the loop over the common notes slides appends for one
NoteslideDiffs(c_notes, r_notes, name) ==
    LET cn == DictGet(c_notes, name)
        rn == DictGet(r_notes, name)
    IN  (IF cn.slide_target # rn.slide_target
         THEN << [type |-> "NOTESLIDE_SLIDE_REF_CHANGED", severity |-> "CRITICAL",
                  noteslide |-> name, corrupt_slide |-> cn.slide_target,
                  repaired_slide |-> rn.slide_target] >>
         ELSE <<>>)
        \o (IF cn.master_target # rn.master_target
            THEN << [type |-> "NOTESLIDE_MASTER_REF_CHANGED", severity |-> "HIGH",
                     noteslide |-> name, corrupt_master |-> cn.master_target,
                     repaired_master |-> rn.master_target] >>
            ELSE <<>>)

\* lines 879-901: c_note_names - r_note_names, r_note_names - c_note_names,
\* c_note_names & r_note_names
NotesRemovedLoop(c, r) ==
    LET c_names == Keys(get_noteslides_data(c).data)
        r_names == Keys(get_noteslides_data(r).data)
    IN  Loop("noteslides_removed", << c_names, r_names >>, SetOf(c_names) \ SetOf(r_names))

NotesAddedLoop(c, r) ==
    LET c_names == Keys(get_noteslides_data(c).data)
        r_names == Keys(get_noteslides_data(r).data)
    IN  Loop("noteslides_added", << c_names, r_names >>, SetOf(r_names) \ SetOf(c_names))

NotesCommonLoop(c, r) ==
    LET c_notes == get_noteslides_data(c).data
        r_notes == get_noteslides_data(r).data
    IN  Loop("noteslides_common", << Keys(c_notes), Keys(r_notes) >>,
             {name \in SetOf(Keys(c_notes)) \cap SetOf(Keys(r_notes)) :
                 NoteslideDiffs(c_notes, r_notes, name) # <<>>})

_compare_noteslides(c, r, seed) ==
    LET c_notes == get_noteslides_data(c)
        r_notes == get_noteslides_data(r)
        removed == SetOrder(NotesRemovedLoop(c, r), seed)
        added   == SetOrder(NotesAddedLoop(c, r), seed)
        common  == SetOrder(NotesCommonLoop(c, r), seed)
    IN  IF FirstExc(c_notes, r_notes) # "none" THEN Raised(FirstExc(c_notes, r_notes))
        ELSE Diffs(
        [i \in 1..Len(removed) |->
            [type |-> "NOTESLIDE_REMOVED", severity |-> "HIGH", noteslide |-> removed[i]]]
        \o [i \in 1..Len(added) |->
            [type |-> "NOTESLIDE_ADDED", severity |-> "MEDIUM", noteslide |-> added[i]]]
        \o Concat([i \in 1..Len(common) |->
                      NoteslideDiffs(c_notes.data, r_notes.data, common[i])]))

\* one diff per property that differs
AppCountDiff(kind, severity, cv, rv) ==
    IF cv # rv
    THEN << [type |-> kind, severity |-> severity, corrupt |-> cv, repaired |-> rv] >>
    ELSE <<>>

\* _compare_app_properties: the diffs appended, and the exception an
\* extractor raises before any is
\* lines 928-956: the diffs from the two property dicts, or the exception
\* one of the two get_app_properties() calls raised
AppPropertiesDiffs(c_props, r_props) ==
    IF FirstExc(c_props, r_props) # "none" THEN Raised(FirstExc(c_props, r_props))
    ELSE Diffs(
            AppCountDiff("APP_SLIDE_COUNT_CHANGED", "HIGH",
                         c_props.data.slides, r_props.data.slides)
            \o AppCountDiff("APP_NOTE_COUNT_CHANGED", "HIGH",
                            c_props.data.notes, r_props.data.notes)
            \o AppCountDiff("APP_HIDDEN_SLIDE_COUNT_CHANGED", "MEDIUM",
                            c_props.data.hidden_slides, r_props.data.hidden_slides))

_compare_app_properties(c, r) ==
    AppPropertiesDiffs(get_app_properties(c), get_app_properties(r))

\* set(a['id'] for a in authors if a['id'])
AuthorIds(authors) ==
    {authors[i].id[1] : i \in {j \in 1..Len(authors) : Truthy(authors[j].id)}}

\* lines 999-1008: what the loop over the common comment files appends for one
CommentCountDiff(c_files, r_files, file) ==
    LET c_count == Len(DictGet(c_files, file))
        r_count == Len(DictGet(r_files, file))
    IN  IF c_count # r_count
        THEN << [type |-> "COMMENT_COUNT_CHANGED", severity |-> "MEDIUM",
                 file |-> file, corrupt |-> c_count, repaired |-> r_count] >>
        ELSE <<>>

\* lines 977-998: c_comment_files - r_comment_files, r_comment_files -
\* c_comment_files, c_comment_files & r_comment_files
CommentsRemovedLoop(c, r) ==
    LET c_names == Keys(get_comments_data(c).data.comments)
        r_names == Keys(get_comments_data(r).data.comments)
    IN  Loop("comments_removed", << c_names, r_names >>, SetOf(c_names) \ SetOf(r_names))

CommentsAddedLoop(c, r) ==
    LET c_names == Keys(get_comments_data(c).data.comments)
        r_names == Keys(get_comments_data(r).data.comments)
    IN  Loop("comments_added", << c_names, r_names >>, SetOf(r_names) \ SetOf(c_names))

CommentsCommonLoop(c, r) ==
    LET c_files == get_comments_data(c).data.comments
        r_files == get_comments_data(r).data.comments
    IN  Loop("comments_common", << Keys(c_files), Keys(r_files) >>,
             {file \in SetOf(Keys(c_files)) \cap SetOf(Keys(r_files)) :
                 CommentCountDiff(c_files, r_files, file) # <<>>})

_compare_comments(c, r, seed) ==
    LET c_comments == get_comments_data(c)
        r_comments == get_comments_data(r)
        c_author_ids == AuthorIds(c_comments.data.authors)
        r_author_ids == AuthorIds(r_comments.data.authors)
        removed == SetOrder(CommentsRemovedLoop(c, r), seed)
        added   == SetOrder(CommentsAddedLoop(c, r), seed)
        common  == SetOrder(CommentsCommonLoop(c, r), seed)
    IN  IF FirstExc(c_comments, r_comments) # "none"
        THEN Raised(FirstExc(c_comments, r_comments))
        ELSE Diffs(
        (IF c_author_ids # r_author_ids
         THEN << [type |-> "COMMENT_AUTHORS_CHANGED", severity |-> "MEDIUM",
                  corrupt |-> c_author_ids, repaired |-> r_author_ids] >>
         ELSE <<>>)
        \o [i \in 1..Len(removed) |->
            [type |-> "COMMENT_FILE_REMOVED", severity |-> "MEDIUM", file |-> removed[i]]]
        \o [i \in 1..Len(added) |->
            [type |-> "COMMENT_FILE_ADDED", severity |-> "LOW", file |-> added[i]]]
        \o Concat([i \in 1..Len(common) |->
                      CommentCountDiff(c_comments.data.comments,
                                       r_comments.data.comments, common[i])]))

\* root.find(path).get('{r}id') of the first element, None without one
FirstRid(root, path) ==
    IF FindAll(root, path) = <<>> THEN None ELSE Get(FindAll(root, path)[1], "rid")

\* lines 1041-1045: c_root = ET.fromstring(...), then r_root, under one
\* "except ET.ParseError: return": "parsed", "return", or the exception
\* that leaves the method
ParseBoth(c_root, r_root) ==
    IF FromStringRaises(c_root) = "ParseError" THEN "return"
    ELSE IF ~c_root.wf THEN FromStringRaises(c_root)
    ELSE IF FromStringRaises(r_root) = "ParseError" THEN "return"
    ELSE IF ~r_root.wf THEN FromStringRaises(r_root)
    ELSE "parsed"

\* the outcome of a method that starts with ParseBoth
AfterParse(parse, found) ==
    IF parse = "parsed" THEN Diffs(found)
    ELSE IF parse = "return" THEN Diffs(<<>>)
    ELSE Raised(parse)

_compare_slide_xml(c, r, filename) ==
    LET c_root == DictGet(c.files, filename)
        r_root == DictGet(r.files, filename)
        c_shapes == Len(FindAll(c_root, "sp"))
        r_shapes == Len(FindAll(r_root, "sp"))
    IN  AfterParse(ParseBoth(c_root, r_root),
             (IF /\ FindAll(c_root, "clrMapOvr") # <<>>
                 /\ FindAll(r_root, "clrMapOvr") # <<>>
                 /\ FirstRid(c_root, "clrMapOvr") # FirstRid(r_root, "clrMapOvr")
              THEN << [type |-> "SLIDE_CLRMAPOVR_RID_CHANGED", severity |-> "HIGH",
                       file |-> filename,
                       corrupt_rid |-> FirstRid(c_root, "clrMapOvr"),
                       repaired_rid |-> FirstRid(r_root, "clrMapOvr")] >>
              ELSE <<>>)
             \o (IF c_shapes # r_shapes
                 THEN << [type |-> "SLIDE_SHAPE_COUNT_CHANGED", severity |-> "LOW",
                          file |-> filename, corrupt |-> c_shapes,
                          repaired |-> r_shapes] >>
                 ELSE <<>>))

_compare_slidemaster_xml(c, r, filename) ==
    LET c_root == DictGet(c.files, filename)
        r_root == DictGet(r.files, filename)
        c_layouts == Len(FindAll(c_root, "sldLayoutIdLst"))
        r_layouts == Len(FindAll(r_root, "sldLayoutIdLst"))
    IN  AfterParse(ParseBoth(c_root, r_root),
            IF c_layouts # r_layouts
            THEN << [type |-> "SLIDEMASTER_LAYOUT_COUNT_CHANGED", severity |-> "HIGH",
                     file |-> filename, corrupt |-> c_layouts, repaired |-> r_layouts] >>
            ELSE <<>>)

_compare_slidelayout_xml(c, r, filename) ==
    LET c_root == DictGet(c.files, filename)
        r_root == DictGet(r.files, filename)
        c_type == Attr(c_root, "type", "")
        r_type == Attr(r_root, "type", "")
    IN  AfterParse(ParseBoth(c_root, r_root),
            IF c_type # r_type
            THEN << [type |-> "SLIDELAYOUT_TYPE_CHANGED", severity |-> "HIGH",
                     file |-> filename, corrupt |-> c_type, repaired |-> r_type] >>
            ELSE <<>>)

\* lines 1012-1040: what the loop over xml_files appends for one common
\* file, and the exception that ends it there
XmlContentDiffs(c, r, f) ==
    LET c_hash == DictGet(c.hashes, f)
        r_hash == DictGet(r.hashes, f)
    IN  IF ~EndsWith(f, ".xml") THEN Diffs(<<>>)
        ELSE IF c_hash = r_hash THEN Diffs(<<>>)
        ELSE IF IsSlide(f) THEN _compare_slide_xml(c, r, f)
        ELSE IF IsSlideMaster(f) THEN _compare_slidemaster_xml(c, r, f)
        ELSE IF IsLayout(f) THEN _compare_slidelayout_xml(c, r, f)
        ELSE IF f = PresentationXml THEN Diffs(<<>>)
        ELSE Diffs(<< [type |-> "XML_CONTENT_CHANGED", severity |-> "MEDIUM",
                       file |-> f, corrupt_hash |-> c_hash,
                       repaired_hash |-> r_hash] >>)

\* line 1011: common_files = set(corrupt.files.keys()) & set(repaired.files.keys())
CommonFilesLoop(c, r) ==
    Loop("common_files", << Keys(c.files), Keys(r.files) >>,
         {f \in SetOf(Keys(c.files)) \cap SetOf(Keys(r.files)) :
             XmlContentDiffs(c, r, f) # Diffs(<<>>)})

_compare_xml_content(c, r, seed) ==
    LET xml_files == SetOrder(CommonFilesLoop(c, r), seed)
        f[i \in 0..Len(xml_files)] ==
            IF i = 0 THEN Diffs(<<>>)
            ELSE ThenDiffs(f[i-1], XmlContentDiffs(c, r, xml_files[i]))
    IN  f[Len(xml_files)]

_detect_hash_matches(c, r) ==
    LET c_hashes == get_hash_map(c)
        r_hashes == get_hash_map(r)
    IN  Concat([i \in 1..Len(c_hashes) |->
            LET h == c_hashes[i][1]
                c_files == c_hashes[i][2]
                r_files == DictGet(r_hashes, h)
            IN  IF DictHas(r_hashes, h) /\ SetOf(c_files) # SetOf(r_files)
                THEN << [type |-> "RENAMED_IDENTICAL_CONTENT", severity |-> "INFO",
                         hash |-> h, corrupt_files |-> c_files,
                         repaired_files |-> r_files] >>
                ELSE <<>>])

\* the loops over sets that compare() runs: those of a comparison only
\* when no comparison before it, and no extractor it calls first, raises
CompareLoops(c, r) ==
    { OnlyCorruptLoop(c, r), OnlyRepairedLoop(c, r), AllSourcesLoop(c, r) }
    \cup (IF FirstExc(get_presentation_data(c), get_presentation_data(r)) # "none"
          THEN {}
          ELSE { AllTypesLoop(c, r) } \cup
         (IF FirstExc(get_noteslides_data(c), get_noteslides_data(r)) # "none"
          THEN {}
          ELSE { NotesRemovedLoop(c, r), NotesAddedLoop(c, r), NotesCommonLoop(c, r) } \cup
         (IF \/ _compare_app_properties(c, r).exc # "none"
             \/ FirstExc(get_comments_data(c), get_comments_data(r)) # "none"
          THEN {}
          ELSE { CommentsRemovedLoop(c, r), CommentsAddedLoop(c, r),
                 CommentsCommonLoop(c, r), CommonFilesLoop(c, r) })))

\* compare(): the diffs appended, in order, and the exception that ends it
\* (no comparison runs after one that raises)
compare(c, r, seed) ==
    ThenDiffs(ThenDiffs(ThenDiffs(ThenDiffs(ThenDiffs(ThenDiffs(ThenDiffs(
        Diffs(_compare_file_lists(c, r, seed) \o _compare_content_types(c, r)
                  \o _compare_relations(c, r, seed)),
        _compare_presentation_xml(c, r, seed)),
        _compare_sections(c, r)),
        _compare_noteslides(c, r, seed)),
        _compare_app_properties(c, r)),
        _compare_comments(c, r, seed)),
        _compare_xml_content(c, r, seed)),
        Diffs(_detect_hash_matches(c, r)))

(***************************************************************************)
(* PPTXComparator: hypotheses and report.                                  *)
(***************************************************************************)
\* [x for x in list if word in x['type']]
WithWord(list, word) ==
    LET Has(x) == Contains(x.type, word) IN SelectSeq(list, Has)

\* [x for x in list if x['type'] in types]
OfTypes(list, types) ==
    LET Is(x) == x.type \in types IN SelectSeq(list, Is)

\* [d for d in list if d.get('severity') in sevs]
OfSeverity(list, sevs) ==
    LET Is(x) == x.severity \in sevs IN SelectSeq(list, Is)

\* list[:n]
Prefix(list, n) == SubSeq(list, 1, IF Len(list) < n THEN Len(list) ELSE n)

\* a variant that reports every rule, triggered or not
Rule_Unconditional(triggered, title, evidence) ==
    << [title |-> title, evidence |-> evidence] >>

\* one hypothesis if the rule's evidence is not empty
Rule(triggered, title, evidence) ==
    IF triggered THEN << [title |-> title, evidence |-> evidence] >> ELSE <<>>

\* a variant that appends where the code inserts at index 0
InsertLast(list, h) == list \o h

\* hypotheses.insert(0, h) for the hypotheses h of a rule (one or none)
InsertFirst(list, h) == h \o list

\* lines 1379-1387: the kinds named by the misplaced-relationship evidence
MisplacedTypes(invalid_pres_rels, pres_rels_diffs) ==
    UNION {{invalid_pres_rels[n].invalid_relations[k].type :
                k \in 1..Len(invalid_pres_rels[n].invalid_relations)} :
              n \in {m \in 1..Len(invalid_pres_rels) :
                        "invalid_relations" \in DOMAIN invalid_pres_rels[m]}}
    \cup {pres_rels_diffs[n].rel_type :
              n \in {m \in 1..Len(pres_rels_diffs) :
                        pres_rels_diffs[m].corrupt_count
                            > pres_rels_diffs[m].repaired_count}}

\* _generate_hypotheses on the corrupt analyzer's issues and the diff list
_generate_hypotheses(c_issues, ds) ==
    LET dup_rids   == OfTypes(c_issues, {"DUPLICATE_RID"})
        dup_ids    == OfTypes(c_issues, {"DUPLICATE_SLIDE_ID", "DUPLICATE_MASTER_ID"})
        no_master  == OfTypes(c_issues, {"LAYOUT_NO_MASTER"})
        orphans    == OfTypes(ds, {"FILE_REMOVED"})
        broken     == OfTypes(c_issues, {"BROKEN_REF"})
        rel_changes == WithWord(ds, "RELATION")
        slide_issues == OfTypes(ds, {"SLIDE_ID_LIST_CHANGED"})
        noteslide_issues == WithWord(c_issues, "NOTESLIDE")
        noteslide_diffs  == OfSeverity(WithWord(ds, "NOTESLIDE"), {"CRITICAL", "HIGH"})
        section_issues == WithWord(c_issues, "SECTION")
        section_diffs  == OfSeverity(WithWord(ds, "SECTION"), {"CRITICAL", "HIGH"})
        app_issues == WithWord(c_issues, "APP_")
        app_diffs  == OfSeverity(WithWord(ds, "APP_"), {"CRITICAL", "HIGH"})
        notesmaster_issues == WithWord(c_issues, "NOTESMASTER")
        invalid_pres_rels ==
            LET Is(x) == Contains(x.type, "PRES_RELS_INVALID")
                         \/ x.type = "INVALID_PRESENTATION_RELS"
            IN  SelectSeq(c_issues, Is)
        pres_rels_diffs == OfSeverity(WithWord(ds, "PRES_RELS_TYPE_COUNT"), {"CRITICAL"})
        appended ==
            Rule(dup_rids # <<>>, "CRITICAL: Duplicate rId in .rels files",
                 [count |-> Len(dup_rids),
                  rids |-> [i \in 1..Len(Prefix(dup_rids, 3)) |-> dup_rids[i].rid]])
            \o Rule(dup_ids # <<>>,
                    "CRITICAL: Duplicate slideId/slideMasterId in presentation.xml",
                    [count |-> Len(dup_ids)])
            \o Rule(no_master # <<>>, "SlideLayout missing slideMaster relation",
                    [count |-> Len(no_master),
                     parts |-> [i \in 1..Len(Prefix(no_master, 3)) |-> no_master[i].part]])
            \o Rule(orphans # <<>>, "Orphan Parts (unreferenced files)",
                    [count |-> Len(orphans),
                     files |-> [i \in 1..Len(Prefix(orphans, 5)) |-> orphans[i].file]])
            \o Rule(broken # <<>>, "Broken Relations (rId points to non-existent part)",
                    [count |-> Len(broken)])
            \o Rule(rel_changes # <<>>, "Invalid Relations Structure",
                    [count |-> Len(rel_changes)])
            \o Rule(slide_issues # <<>>, "Inconsistent slideIdList", [count |-> 1])
            \o Rule(noteslide_issues # <<>> \/ noteslide_diffs # <<>>,
                    "NoteSlide Reference Issues",
                    [issues |-> Len(noteslide_issues), diffs |-> Len(noteslide_diffs)])
            \o Rule(section_issues # <<>> \/ section_diffs # <<>>,
                    "Section Reference Issues",
                    [issues |-> Len(section_issues), diffs |-> Len(section_diffs)])
            \o Rule(app_issues # <<>> \/ app_diffs # <<>>,
                    "App Properties Count Mismatch",
                    [issues |-> Len(app_issues), diffs |-> Len(app_diffs)])
            \o Rule(notesmaster_issues # <<>>, "NotesMaster Missing or Invalid",
                    [count |-> Len(notesmaster_issues)])
        inserted ==
            InsertFirst(appended,
                Rule(invalid_pres_rels # <<>> \/ pres_rels_diffs # <<>>,
                     "CRITICAL: Misplaced relations in presentation.xml.rels",
                     [count |-> Len(invalid_pres_rels),
                      types |-> MisplacedTypes(invalid_pres_rels, pres_rels_diffs)]))
    IN  IF inserted = <<>>
        THEN << [title |-> "No obvious issues detected",
                 evidence |-> [count |-> 0]] >>
        ELSE inserted

\* generate_report: the entries of each section of the text, in order, and
\* the hypotheses it ends with
generate_report(c, r, ds) ==
    LET TypeOf(list) == [i \in 1..Len(list) |-> list[i].type]
        pres_rels_issues ==
            LET Is(x) == Contains(x.type, "PRES_RELS")
                         \/ x.type = "INVALID_PRESENTATION_RELS"
            IN  SelectSeq(c.issues, Is)
    IN  [corrupt_files  |-> Len(c.files),
         repaired_files |-> Len(r.files),
         issues    |-> TypeOf(c.issues),
         critical  |-> TypeOf(OfSeverity(ds, {"CRITICAL"})),
         high      |-> TypeOf(OfSeverity(ds, {"HIGH"})),
         removed   |-> [i \in 1..Len(OfTypes(ds, {"FILE_REMOVED"})) |->
                           OfTypes(ds, {"FILE_REMOVED"})[i].file],
         sections  |-> TypeOf(WithWord(ds, "SECTION")),
         noteslides |-> TypeOf(WithWord(ds, "NOTESLIDE")),
         app       |-> TypeOf(WithWord(ds, "APP_")),
         comments  |-> TypeOf(WithWord(ds, "COMMENT")),
         pres_rels_issues |-> TypeOf(pres_rels_issues),
         pres_rels_diffs  |-> TypeOf(WithWord(ds, "PRES_RELS")),
         hypotheses |-> _generate_hypotheses(c.issues, ds)]

(***************************************************************************)
(* Several analyzers and the comparator as a state machine.  The analyzer  *)
(* variables hold the fields of the analyzer that is executing (cur); the  *)
(* others rest in pool.  cpc is the position of the comparator's caller:   *)
(* "none" before PPTXComparator(corrupt, repaired), then "new",            *)
(* "compared" after compare() returned, "raised" after it raised.          *)
(***************************************************************************)
\* a variant in which the issue list is one list shared by all analyzers
Resume_SharedIssues(k) == [pool[k] EXCEPT !.issues = issues]

\* the fields analyzer k executes with: its own, each set in its __init__
Resume(k) == pool[k]

\* control passes from the executing analyzer to analyzer k
Switch(k) ==
    /\ k # cur
    /\ pool[k].pc \notin {"unused", "executing"}
    /\ pool' = [pool EXCEPT ![cur] = Self, ![k] = Executing]
    /\ cur' = k
    /\ zip' = Resume(k).zip
    /\ pc' = Resume(k).pc
    /\ files' = Resume(k).files
    /\ hashes' = Resume(k).hashes
    /\ content_types' = Resume(k).content_types
    /\ default_types' = Resume(k).default_types
    /\ relations' = Resume(k).relations
    /\ issues' = Resume(k).issues
    /\ exc' = Resume(k).exc
    /\ runs' = Resume(k).runs
    /\ hist' = Resume(k).hist
    /\ UNCHANGED <<hashSeed, rvars, cpc, diffs, returned, cexc, compares>>

Corrupt  == Object("corrupt")
Repaired == Object("repaired")

\* PPTXComparator(corrupt, repaired), on two analyzed packages
NewComparator ==
    /\ cpc = "none"
    /\ Corrupt.pc = "done"
    /\ Repaired.pc = "done"
    /\ cpc' = "new"
    /\ diffs' = <<>>
    /\ UNCHANGED <<avars, hashSeed, rvars, cur, pool, returned, cexc, compares>>

\* a variant of compare() that consumes the corrupt analyzer's issue list
Compare_ConsumingIssues ==
    /\ cpc = "new"
    /\ cur # "corrupt"
    /\ \E seed \in Commit(hashSeed, CompareLoops(Corrupt, Repaired)) :
          \E run \in {compare(Corrupt, Repaired, seed)} :
              /\ hashSeed' = seed
              /\ diffs' = diffs \o run.diffs
              /\ cexc' = run.exc
    /\ cpc' = IF cexc' # "none" THEN "raised" ELSE "compared"
    /\ returned' = [call |-> "compare"]
    /\ compares' = compares + 1
    /\ pool' = [pool EXCEPT !["corrupt"].issues = <<>>]
    /\ UNCHANGED <<avars, rvars, cur>>

\* compare()
Compare ==
    /\ cpc = "new"
    /\ \E seed \in Commit(hashSeed, CompareLoops(Corrupt, Repaired)) :
          \E run \in {compare(Corrupt, Repaired, seed)} :
              /\ hashSeed' = seed
              /\ diffs' = diffs \o run.diffs
              /\ cexc' = run.exc
    /\ cpc' = IF cexc' # "none" THEN "raised" ELSE "compared"
    /\ returned' = [call |-> "compare"]
    /\ compares' = compares + 1
    /\ UNCHANGED <<avars, rvars, cur, pool>>

\* compare() called again on the same comparator: self.diffs is kept
CompareAgain ==
    /\ cpc \in {"compared", "raised"}
    /\ compares < MaxCompares
    /\ \E seed \in Commit(hashSeed, CompareLoops(Corrupt, Repaired)) :
          \E run \in {compare(Corrupt, Repaired, seed)} :
              /\ hashSeed' = seed
              /\ diffs' = diffs \o run.diffs
              /\ cexc' = run.exc
    /\ cpc' = IF cexc' # "none" THEN "raised" ELSE "compared"
    /\ returned' = [call |-> "compare"]
    /\ compares' = compares + 1
    /\ UNCHANGED <<avars, rvars, cur, pool>>

\* _generate_hypotheses()
GenerateHypotheses ==
    /\ cpc \in {"new", "compared"}
    /\ returned' = [call |-> "_generate_hypotheses",
                    value |-> _generate_hypotheses(Corrupt.issues, diffs)]
    /\ UNCHANGED <<avars, hashSeed, rvars, cur, pool, cpc, diffs, cexc, compares>>

\* generate_report()
GenerateReport ==
    /\ cpc \in {"new", "compared"}
    /\ returned' = [call |-> "generate_report",
                    value |-> generate_report(Corrupt, Repaired, diffs)]
    /\ UNCHANGED <<avars, hashSeed, rvars, cur, pool, cpc, diffs, cexc, compares>>

\* the data extractors called on one analyzer
Extract(n) ==
    /\ cpc \in {"new", "compared"}
    /\ returned' = [call |-> "extractors", of |-> n,
                    value |-> [presentation |-> get_presentation_data(Object(n)),
                               app |-> get_app_properties(Object(n)),
                               noteslides |-> get_noteslides_data(Object(n)),
                               comments |-> get_comments_data(Object(n)),
                               hash_map |-> get_hash_map(Object(n))]]
    /\ UNCHANGED <<avars, hashSeed, rvars, cur, pool, cpc, diffs, cexc, compares>>

(***************************************************************************)
(* The pairs of archives compared.                                         *)
(***************************************************************************)
Pic2 == "ppt/media/pic2.png"
Theme1 == "ppt/theme/theme1.xml"
Theme2 == "ppt/theme/theme2.xml"
Layout1 == "ppt/slideLayouts/slideLayout1.xml"
Layout1Rels ==
    "ppt/slideLayouts/_rels/slideLayout1.xml.rels"
Master1 == "ppt/slideMasters/slideMaster1.xml"
GoodRootRels == RelsDoc(<< RelElem("rId1", "officeDocument", PresentationXml) >>)

\* the parts every compared package has, around a presentation part and its
\* relationship descriptor
Core(manifest, pres, presrels, slide) ==
    << <<ContentTypesXml, manifest>>, <<RootRels, GoodRootRels>>,
       <<PresentationXml, pres>>, <<PresentationRels, presrels>>,
       <<Slide1, slide>> >>

OneSlideRel == RelsDoc(<< PresRelElem(1, "slide") >>)

PlainCore == Core(GoodManifest, SimplePresentation, OneSlideRel, Xml)

\* a manifest that also overrides the theme part
ThemeManifest(ctype) ==
    [GoodManifest EXCEPT !.Override =
        Append(@, [PartName |-> "/" \o Theme1, ContentType |-> ctype])]

SectionedPresentation(refs, names) ==
    Presentation(<< SldIdLst(<< SldIdRef("256", "rId1"), SldIdRef("257", "rId2") >>),
                    SectionLst([i \in 1..Len(names) |->
                        Section(names[i], "{S}",
                                << SldIdLst(<< [id |-> refs[i]] >>) >>)]) >>,
                 << SldId("2147483648") >>)

ToSlide(n) == "../slides/slide" \o n \o ".xml"
ToNotesMaster == "../notesMasters/notesMaster1.xml"

PkgPlain == PlainCore

PkgMisplaced ==
    Core(GoodManifest, SimplePresentation,
         RelsDoc(<< PresRelElem(1, "slide"), PresRelElem(2, "image") >>), Xml)
    \o << <<Pic1, Binary("pic1")>> >>

PkgRenamed == PlainCore \o << <<Pic2, Binary("pic1")>> >>

PkgDupRid ==
    PlainCore
    \o << <<Slide1Rels, RelsDoc(<< RelElem("rId1", "image", ToPic1),
                                   RelElem("rId1", "image", ToPic2) >>)>>,
          <<Pic1, Binary("pic1")>> >>

PkgOtherRels ==
    PlainCore
    \o << <<Slide1Rels, RelsDoc(<< RelElem("rId1", "image", ToPic2),
                                   RelElem("rId2", "image", ToPic1) >>)>>,
          <<Pic1, Binary("other")>> >>

PkgSections ==
    Core(GoodManifest, SectionedPresentation(<<"256">>, <<"Intro">>), OneSlideRel, Xml)

PkgSections2 ==
    Core(GoodManifest, SectionedPresentation(<<"257", "256">>, <<"Intro", "Extra">>),
         OneSlideRel, Xml)

PkgNotes ==
    PlainCore
    \o << <<NotesSlide1, Xml>>,
          <<NotesSlide1Rels, RelsDoc(<< RelElem("rId1", "slide", ToSlide("1")),
                                        RelElem("rId2", "notesMaster", ToNotesMaster) >>)>> >>

PkgNotes2 ==
    PlainCore
    \o << <<NotesSlide1, Xml>>,
          <<NotesSlide1Rels, RelsDoc(<< RelElem("rId1", "slide", ToSlide("2")) >>)>> >>

PkgApp1 == PlainCore \o << <<AppXml, AppDoc("1")>> >>

\* the notes count is followed by a line feed, the hidden-slide count
\* preceded by a space
PkgApp2 ==
    PlainCore
    \o << <<AppXml, [wf |-> TRUE, Slides |-> << [text |-> "2"] >>,
                     Notes |-> << [text |-> "1\n"] >>,
                     HiddenSlides |-> << [text |-> " 1"] >>]>> >>

PkgComments ==
    PlainCore
    \o << <<CommentAuthorsXml,
             [wf |-> TRUE, cmAuthor |-> << [id |-> "0"], [name |-> "Bob"] >>]>>,
          <<Comment1, [wf |-> TRUE, cm |-> << [authorId |-> "7"] >>]>> >>

PkgLayout ==
    Core(ThemeManifest("application/theme"), SimplePresentation, OneSlideRel, Xml)
    \o << <<Layout1, [wf |-> TRUE, type |-> "title"]>>,
          <<Layout1Rels, RelsDoc(<< RelElem("rId1", "slideMaster",
              "../slideMasters/slideMaster1.xml") >>)>>,
          <<Master1, [wf |-> TRUE, sldLayoutIdLst |-> << [id |-> "1"] >>]>>,
          <<Theme1, [wf |-> TRUE, bytes |-> "theme-a"]>> >>

PkgLayout2 ==
    Core(ThemeManifest("application/xml"), SimplePresentation, OneSlideRel,
         [wf |-> TRUE, sp |-> << [id |-> "2"] >>,
          clrMapOvr |-> << [rid |-> "rId9"] >>])
    \o << <<Layout1, [wf |-> TRUE, type |-> "blank"]>>,
          <<Master1, [wf |-> TRUE, sldLayoutIdLst |-> << [id |-> "1"], [id |-> "2"] >>]>>,
          <<Theme1, [wf |-> TRUE, bytes |-> "theme-b"]>> >>

\* the picture under another name, and a hidden-slide count that is no number
PkgAppHidden ==
    PlainCore
    \o << <<Pic2, Binary("pic1")>>,
          <<AppXml, [wf |-> TRUE, Slides |-> << [text |-> "1"] >>,
                     HiddenSlides |-> << [text |-> "abc"] >>]>> >>

\* the theme of PkgLayout under another name, and another theme under its name
PkgThemeMoved ==
    PlainCore
    \o << <<Theme1, [wf |-> TRUE, bytes |-> "theme-b"]>>,
          <<Theme2, [wf |-> TRUE, bytes |-> "theme-a"]>> >>

ComparePackages ==
    { PkgPlain, PkgMisplaced, PkgRenamed, PkgDupRid, PkgOtherRels, PkgSections,
      PkgSections2, PkgNotes, PkgNotes2, PkgApp1, PkgApp2, PkgComments, PkgLayout,
      PkgLayout2, PkgAppHidden, PkgThemeMoved }

\* packages that vary the kinds in the presentation's relationship descriptor
PresRelsPackage(rels) ==
    Core(GoodManifest, SimplePresentation, rels, Xml) \o << <<Pic1, Binary("pic1")>> >>

PresRelsPackages == { PresRelsPackage(rels) : rels \in ComparedPresRelsDocs }

\* a descriptor with one relationship of two CRITICAL kinds (image,
\* notesSlide) and of one HIGH kind, compared with one that holds a slide
\* relationship and with one that holds a slide and an image relationship
\* (the image counts are then equal)
ThreeKindsRels ==
    RelsDoc(<< PresRelElem(1, "image"), PresRelElem(2, "notesSlide"),
               PresRelElem(3, "theme") >>)

PkgThreeKinds == PresRelsPackage(ThreeKindsRels)

\* slide-id lists that differ in an id, in a relationship id, in their length
\* and in their order, one of them with two entries sharing a relationship id
SlideIdLists ==
    { << SldIdRef("256", "rId2"), SldIdRef("257", "rId3") >>,
      << SldIdRef("257", "rId3"), SldIdRef("256", "rId2") >>,
      << SldIdRef("256", "rId2"), SldIdRef("257", "rId2") >>,
      << SldIdRef("257", "rId2") >>,
      << SldIdRef("256", "rId2") >>,
      << SldIdRef("256", "rId3") >> }

\* a presentation whose one section cites a slide under the relationship id
\* of the presentation's own entry, the section after or before the own list
SectionSharingRid == Section("Intro", "{S}", << SldIdLst(<< SldIdRef("999", "rId2") >>) >>)

SectionsLast ==
    Presentation(<< SldIdLst(<< SldIdRef("256", "rId2") >>),
                    SectionLst(<< SectionSharingRid >>) >>,
                 << SldId("2147483648") >>)

SectionsFirst ==
    Presentation(<< SectionLst(<< SectionSharingRid >>),
                    SldIdLst(<< SldIdRef("256", "rId2") >>) >>,
                 << SldId("2147483648") >>)

\* the package of a presentation with one slide-id list and no section
SlideIdPackage(list) ==
    Core(GoodManifest, Presentation(<< SldIdLst(list) >>, << SldId("2147483648") >>),
         OneSlideRel, Xml)

\* packages that vary the slide-id list of the presentation
SlideIdPackages == { SlideIdPackage(list) : list \in SlideIdLists }

\* packages whose section shares the relationship id of the own entry,
\* compared with each other and with the packages of the one-entry lists
\* that the two document orders make of them
SectionPackages ==
    { Core(GoodManifest, pres, OneSlideRel, Xml) :
          pres \in {SectionsLast, SectionsFirst} }

SectionPeers ==
    SectionPackages \cup { SlideIdPackage(<< SldIdRef("256", "rId2") >>),
                           SlideIdPackage(<< SldIdRef("999", "rId2") >>) }

\* packages in which the paths of the slide ids and of the sections meet,
\* compared with each other
TreePackages ==
    { Core(GoodManifest, pres, OneSlideRel, Xml) :
          pres \in {TwoOwnLists, TwoSectionLsts, NestedSections} }

\* packages with a part that ET.fromstring rejects where only the
\* comparison parses it: the slide, and a comment part without an authors
\* part; one of them beside a theme that differs
PkgSlideEnc == Core(GoodManifest, SimplePresentation, OneSlideRel, UnknownEncoding)

PkgSlideMulti == Core(GoodManifest, SimplePresentation, OneSlideRel, MultiByteEncoding)

PkgSlideBad == Core(GoodManifest, SimplePresentation, OneSlideRel, Malformed)

PkgSlideEncTheme == PkgSlideEnc \o << <<Theme1, [wf |-> TRUE, bytes |-> "theme-a"]>> >>

PkgCommentEnc == PlainCore \o << <<Comment1, MultiByteEncoding>> >>

\* the pairs in which the rejected part is parsed first, parsed second,
\* not parsed after a part that is no XML, not parsed because the bytes are
\* equal, or parsed before or after a part that gives a diff
EncodingPairs ==
    { <<PkgSlideEnc, PkgPlain>>, <<PkgPlain, PkgSlideMulti>>,
      <<PkgSlideBad, PkgSlideEnc>>, <<PkgSlideMulti, PkgSlideBad>>,
      <<PkgSlideEnc, PkgSlideEnc>>, <<PkgSlideEncTheme, PkgThemeMoved>>,
      <<PkgThemeMoved, PkgSlideEncTheme>>, <<PkgCommentEnc, PkgPlain>>,
      <<PkgPlain, PkgCommentEnc>>, <<PkgCommentEnc, PkgComments>> }

ComparePairs ==
    (ComparePackages \X ComparePackages)
    \cup (SlideIdPackages \X SlideIdPackages)
    \cup (SectionPackages \X SectionPeers)
    \cup (SectionPeers \X SectionPackages)
    \cup (TreePackages \X TreePackages)
    \cup (PresRelsPackages \X {PkgPlain})
    \cup ({PkgPlain} \X PresRelsPackages)
    \cup ({PkgThreeKinds} \X {PkgPlain, PkgMisplaced})
    \cup ({PkgPlain, PkgMisplaced} \X {PkgThreeKinds})
    \cup EncodingPairs

(***************************************************************************)
(* The comparison as main() runs it: analyze the corrupt package, analyze  *)
(* the repaired one, construct the comparator, compare, report.            *)
(***************************************************************************)
InitCompare ==
    /\ \E in \in ComparePairs :
          /\ zip = in[1]
          /\ pool = [n \in Analyzers |->
                        IF n = "corrupt" THEN Executing
                        ELSE IF n = "repaired" THEN NewAnalyzer(in[2])
                        ELSE NoAnalyzer]
          /\ hashSeed = {}
    /\ cur = "corrupt"
    /\ pc = "new"
    /\ files = <<>>
    /\ hashes = <<>>
    /\ content_types = <<>>
    /\ default_types = <<>>
    /\ relations = <<>>
    /\ issues = <<>>
    /\ exc = "none"
    /\ runs = 0
    /\ hist = <<>>
    /\ cpc = "none"
    /\ diffs = <<>>
    /\ returned = NothingReturned
    /\ cexc = "none"
    /\ compares = 0
    /\ ResolverIdle

\* one step of the one analyze() call made on the executing analyzer
Build ==
    \/ pc = "new" /\ LoadFiles
    \/ ParseContentTypes
    \/ ParseAllRels
    \/ pc = "rels" /\ ValidateReferences

\* main(): the repaired package is analyzed after the corrupt one
AnalyzeRepaired ==
    /\ cur = "corrupt"
    /\ pc = "done"
    /\ Switch("repaired")

NextCompare ==
    \/ Build
    \/ AnalyzeRepaired
    \/ NewComparator
    \/ Compare
    \/ GenerateHypotheses
    \/ GenerateReport
    \/ \E n \in {"corrupt", "repaired"} : Extract(n)

SpecCompare == InitCompare /\ [][NextCompare]_vars

(***************************************************************************)
(* Repeated calls: analyze() again on the executing analyzer, compare()    *)
(* again on the comparator, in any order the guards allow.                 *)
(***************************************************************************)
PkgNoManifest == << <<Slide1, Xml>>, <<Pic1, Binary("pic1")>> >>

PkgBadRels == PlainCore \o << <<Slide1Rels, Malformed>> >>

\* the same without the picture
PkgNoManifestNoPic == << <<Slide1, Xml>> >>

\* the pairs (corrupt, repaired) of the repeated calls
RepeatPairs ==
    LET pairs == { <<PkgNoManifest, PkgNoManifestNoPic>>, <<PkgMisplaced, PkgPlain>>,
                   <<PkgBadRels, PkgPlain>>, <<PkgAppHidden, PkgPlain>> }
    IN  pairs \cup {<<p[2], p[1]>> : p \in pairs}

InitRepeat ==
    /\ \E p \in RepeatPairs :
          /\ zip = p[1]
          /\ pool = [n \in Analyzers |->
                        IF n = "corrupt" THEN Executing
                        ELSE IF n = "repaired" THEN NewAnalyzer(p[2])
                        ELSE NoAnalyzer]
    /\ hashSeed = {}
    /\ cur = "corrupt"
    /\ pc = "new"
    /\ files = <<>>
    /\ hashes = <<>>
    /\ content_types = <<>>
    /\ default_types = <<>>
    /\ relations = <<>>
    /\ issues = <<>>
    /\ exc = "none"
    /\ runs = 0
    /\ hist = <<>>
    /\ cpc = "none"
    /\ diffs = <<>>
    /\ returned = NothingReturned
    /\ cexc = "none"
    /\ compares = 0
    /\ ResolverIdle

NextRepeat ==
    \/ LoadFiles
    \/ ParseContentTypes
    \/ ParseAllRels
    \/ ValidateReferences
    \/ AnalyzeRepaired
    \/ NewComparator
    \/ Compare
    \/ CompareAgain

SpecRepeat == InitRepeat /\ [][NextRepeat]_vars

(***************************************************************************)
(* Two analyzers built concurrently.  The analyzers "corrupt_alone" and    *)
(* "repaired_alone" are built one fully and then the other; then the       *)
(* analyzers "corrupt" and "repaired", over the same two archives, are     *)
(* built with control passing between them after any build step.           *)
(***************************************************************************)
PkgAppText == PlainCore \o << <<AppXml, AppDoc("abc")>> >>

ConcurrentPackages ==
    { PkgPlain, PkgMisplaced, PkgDupRid, PkgComments, PkgNoManifest, PkgBadRels,
      PkgAppText }

InitConcurrent ==
    /\ \E a, b \in ConcurrentPackages :
          /\ zip = a
          /\ pool = [n \in Analyzers |->
                        IF n = "corrupt_alone" THEN Executing
                        ELSE IF n = "corrupt" THEN NewAnalyzer(a)
                        ELSE NewAnalyzer(b)]
    /\ hashSeed = {}
    /\ cur = "corrupt_alone"
    /\ pc = "new"
    /\ files = <<>>
    /\ hashes = <<>>
    /\ content_types = <<>>
    /\ default_types = <<>>
    /\ relations = <<>>
    /\ issues = <<>>
    /\ exc = "none"
    /\ runs = 0
    /\ hist = <<>>
    /\ cpc = "none"
    /\ diffs = <<>>
    /\ returned = NothingReturned
    /\ cexc = "none"
    /\ compares = 0
    /\ ResolverIdle

\* analyze() has returned or raised
Finished(a) == a.pc \in {"done", "raised"}

\* one after the other: the second analyze() starts when the first has ended
RunNextAlone ==
    /\ cur = "corrupt_alone"
    /\ Finished(Self)
    /\ Switch("repaired_alone")

\* the two concurrent analyzers start, either one first
StartConcurrent ==
    /\ cur = "repaired_alone"
    /\ Finished(Self)
    /\ \E k \in {"corrupt", "repaired"} : Switch(k)

\* control passes to the other concurrent analyzer, while it has steps left
Preempt ==
    /\ cur \in {"corrupt", "repaired"}
    /\ \E k \in {"corrupt", "repaired"} : ~Finished(pool[k]) /\ Switch(k)

NextConcurrent == Build \/ RunNextAlone \/ StartConcurrent \/ Preempt

SpecConcurrent == InitConcurrent /\ [][NextConcurrent]_vars

(***************************************************************************)
(* The resolver as its documentation states it (section 4.4): the          *)
(* canonical path is built from the source's containing directory and the  *)
(* target, segment by segment.                                             *)
(***************************************************************************)
\* the source's containing directory: what precedes its last '/'
ContainingDir(src) ==
    LET slashes == {i \in 1..Len(src) : Char(src, i) = "/"}
    IN  IF slashes = {} THEN ""
        ELSE SubSeq(src, 1, (CHOOSE i \in slashes : \A j \in slashes : j <= i) - 1)

RECURSIVE Canonical(_, _)
\* segments processed left to right into the accumulator acc
Canonical(segs, acc) ==
    IF segs = <<>> THEN acc
    ELSE LET s == Head(segs)
         IN  Canonical(Tail(segs),
                 IF s = ".." THEN (IF acc = <<>> THEN acc ELSE ButLast(acc))
                 ELSE IF s = "" \/ s = "." THEN acc
                 ELSE Append(acc, s))

CanonicalPath(src, tgt) ==
    Join(Canonical(Split(ContainingDir(src) \o "/" \o tgt, "/"), <<>>), "/")

\* number of '..' segments of a target
DotDotCount(tgt) ==
    Cardinality({i \in 1..Len(Split(tgt, "/")) : Split(tgt, "/")[i] = ".."})

\* number of segments of the source's containing directory
DirDepth(src) ==
    IF ContainingDir(src) = "" THEN 0 ELSE Len(Split(ContainingDir(src), "/"))

\* C3: for every non-empty source and every target without a leading '/',
\* resolve(source, target) is the '/'-join of the segments left after
\* normalising the source's containing directory followed by the target;
\* this includes a source with no directory component.
C3_ResolveNormalizes ==
    (called /\ source # "" /\ ~StartsWith(target, "/"))
        => result = CanonicalPath(source, target)

\* C4: the resolver's base cases: a target with a leading '/' loses it and
\* is not normalised further; the empty source leaves a relative target
\* unchanged; the three documented examples; and surplus '..' segments of a
\* relative target are dropped, leaving the remaining segments.
C4_BaseCases ==
    called =>
      /\ StartsWith(target, "/") =>
            /\ ~StartsWith(result, "/")
            /\ \E k \in 1..Len(target) :
                  /\ \A j \in 1..k : Char(target, j) = "/"
                  /\ result = SubSeq(target, k + 1, Len(target))
      /\ (source = "" /\ ~StartsWith(target, "/")) => result = target
      /\ (source = "a/b/c.xml"
            /\ target = "../d.xml")
            => result = "a/d.xml"
      /\ (source = "" /\ target = "x.xml") => result = "x.xml"
      /\ (source = "a/b.xml" /\ target = "/c.xml")
            => result = "c.xml"
      /\ (source # "" /\ ~StartsWith(target, "/")
            /\ DotDotCount(target) > DirDepth(source))
            => /\ result = CanonicalPath(source, target)
               /\ \A i \in 1..Len(Split(result, "/")) :
                     Split(result, "/")[i] # ".."

(***************************************************************************)
(* Properties of the analyzer.                                             *)
(***************************************************************************)
\* a _validate_references() call has just ended (returned or raised)
ValidationRan ==
    /\ pc \in {"done", "raised"}
    /\ hist # <<>>
    /\ Last(hist).end >= 0

\* the issues the i-th call's validation appended
RunIssues(i) == SubSeq(issues, hist[i].vstart + 1, hist[i].end)

\* everything the i-th call appended (for analyze(): parse issues included)
CallIssues(i) == SubSeq(issues, hist[i].start + 1, hist[i].end)

\* the issue list as the i-th call left it
IssuesAfter(i) == SubSeq(issues, 1, hist[i].end)

\* the issues the latest validation appended
LastRunIssues == RunIssues(Len(hist))

\* how many entries of a list of issues satisfy P
HowMany(list, P(_)) == Cardinality({i \in 1..Len(list) : P(list[i])})

ManifestMalformed ==
    \E i \in 1..Len(zip) : zip[i][1] = ContentTypesXml /\ ~zip[i][2].wf

\* an issue that reports the manifest
AboutManifest(i) ==
    \/ i.type = "CRITICAL"
    \/ i.type = "ERROR" /\ i.path = ContentTypesXml

\* C1: analyze() completes whatever the contents of the parts: no part
\* content makes the build or the validation raise.
C1_AnalyzeCompletes == pc # "raised" /\ exc = "none"

\* C2: with a manifest that is not well-formed XML the build succeeds: both
\* tables are empty, one issue about the manifest is appended, and
\* relationship parsing and validation still run.
C2_MalformedManifest ==
    (ManifestMalformed /\ pc \notin {"new", "loaded"} /\ runs = 1)
        => /\ exc # "ParseError"
           /\ default_types = <<>>
           /\ content_types = <<>>
           /\ HowMany(issues, AboutManifest) = 1

\* C5 (as claimed): after a second validation run on the same analyzer the
\* issue list has the same entries in the same order as after the first
\* run, none duplicated.
C5_SecondRunSameList ==
    \A i \in 2..Len(hist) :
        hist[i].end >= 0 => IssuesAfter(i) = IssuesAfter(i - 1)

\* C5 (amended): a second run is deterministic but not idempotent on the
\* list: the validation of every later call appends exactly the issues, in
\* the same order, that the first validation appended, a repeated analyze()
\* appends exactly what the first analyze() appended, and the list after the
\* call is the list before it followed by those issues.
C5_SecondRunAppendsSame ==
    \A i \in 2..Len(hist) :
        hist[i].end >= 0 =>
            /\ RunIssues(i) = RunIssues(1)
            /\ hist[i].call = "analyze" => CallIssues(i) = CallIssues(1)
            /\ IssuesAfter(i) = IssuesAfter(i - 1) \o CallIssues(i)
            /\ Len(IssuesAfter(i)) = Len(IssuesAfter(i - 1)) + Len(CallIssues(i))

C5_Witness ==
    /\ pc = "done"
    /\ Len(hist) >= 2
    /\ Last(hist).end >= 0
    /\ Last(hist).call = "analyze"
    /\ \E i \in 1..Len(LastRunIssues) : LastRunIssues[i].type = "DUPLICATE_RID"

\* the presentation's relationships of a kind that must not be there
MisplacedPresRels ==
    LET rels == DictGetOr(relations, PresentationXml, <<>>)
    IN  {i \in 1..Len(rels) : Last(Split(rels[i].type, "/")) \in INVALID_PRES_REL_TYPES}

\* C6: whenever the relationship set of ppt/presentation.xml holds a
\* relationship of a misplaced kind, validation appends one
\* INVALID_PRESENTATION_RELS issue listing every such relationship and, per
\* kind, one PRES_RELS_INVALID_<KIND> issue with the number of relationships
\* of that kind, whether or not ppt/presentation.xml is present and
\* well-formed.
C6_PresRelsChecked ==
    (ValidationRan /\ MisplacedPresRels # {}) =>
        LET rels == DictGetOr(relations, PresentationXml, <<>>)
            IsInvalidRels(i) == i.type = "INVALID_PRESENTATION_RELS"
        IN  /\ HowMany(LastRunIssues, IsInvalidRels) = 1
            /\ \A n \in 1..Len(LastRunIssues) :
                  IsInvalidRels(LastRunIssues[n]) =>
                      Len(LastRunIssues[n].invalid_relations) = Cardinality(MisplacedPresRels)
            /\ \A k \in INVALID_PRES_REL_TYPES :
                  LET OfKind(i) == i.type = PresRelsInvalidType(k)
                      n == Cardinality({j \in MisplacedPresRels :
                                            Last(Split(rels[j].type, "/")) = k})
                  IN  IF n = 0 THEN HowMany(LastRunIssues, OfKind) = 0
                      ELSE /\ HowMany(LastRunIssues, OfKind) = 1
                           /\ \A m \in 1..Len(LastRunIssues) :
                                 OfKind(LastRunIssues[m]) => LastRunIssues[m].count = n

\* the presentation document of the package, when present and well-formed
HasPresentation ==
    DictHas(files, PresentationXml) /\ DictGet(files, PresentationXml).wf

PresentationDoc == DictGet(files, PresentationXml)

\* the ids of the presentation's own (top-level) slide-id list
TopLevelSlideIds ==
    LET lists == Children(PresentationDoc, "sldIdLst")
    IN  TruthyIds(Concat([i \in 1..Len(lists) |-> Children(lists[i], "sldId")]))

\* C7: for every section and every slide id cited in it, validation appends
\* one SECTION_INVALID_SLIDE_REF issue naming the section and the id iff the
\* id is not in the presentation's own top-level slide-id list.
C7_SectionRefs ==
    (ValidationRan /\ HasPresentation) =>
        LET secs == FindAllSection(PresentationDoc)
        IN  \A s \in 1..Len(secs) : \A r \in 1..Len(FindAllSldId(secs[s])) :
                LET id == Get(FindAllSldId(secs[s])[r], "id")
                    Reports(i) == /\ i.type = "SECTION_INVALID_SLIDE_REF"
                                  /\ i.section = secs[s].name
                                  /\ i.slideId = id[1]
                IN  Truthy(id) =>
                       ((HowMany(LastRunIssues, Reports) >= 1)
                           <=> ~InSeq(id[1], TopLevelSlideIds))

\* the values that occur more than once in a list
Repeated(ids) == {ids[i] : i \in {j \in 1..Len(ids) : Count(ids, ids[j]) > 1}}

\* C8: validation appends exactly one DUPLICATE_SLIDE_ID issue iff a value
\* occurs more than once in the presentation's top-level slide-id list, and
\* it lists each duplicated value once; likewise DUPLICATE_MASTER_ID for the
\* slide-master-id list.  Ids cited by sections do not count.
C8_DuplicateIds ==
    (ValidationRan /\ HasPresentation) =>
        LET IsDupSlide(i) == i.type = "DUPLICATE_SLIDE_ID"
            IsDupMaster(i) == i.type = "DUPLICATE_MASTER_ID"
            mids == TruthyIds(FindAll(PresentationDoc, "sldMasterIdLst"))
        IN  /\ HowMany(LastRunIssues, IsDupSlide)
                 = (IF Repeated(TopLevelSlideIds) # {} THEN 1 ELSE 0)
            /\ \A n \in 1..Len(LastRunIssues) :
                  IsDupSlide(LastRunIssues[n]) =>
                      LastRunIssues[n].ids = Repeated(TopLevelSlideIds)
            /\ HowMany(LastRunIssues, IsDupMaster)
                 = (IF Repeated(mids) # {} THEN 1 ELSE 0)
            /\ \A n \in 1..Len(LastRunIssues) :
                  IsDupMaster(LastRunIssues[n]) => LastRunIssues[n].ids = Repeated(mids)

\* C9: for every source and every relationship id that occurs k >= 2 times
\* in its relationship set, validation appends exactly one DUPLICATE_RID
\* issue for that (source, id) with count = k; an id that occurs once gets
\* none, also when another source uses the same id; and no other
\* DUPLICATE_RID issue is appended.
C9_DuplicateRid ==
    ValidationRan =>
        /\ \A s \in 1..Len(relations) :
              LET src  == relations[s][1]
                  rels == relations[s][2]
              IN  \A r \in 1..Len(rels) :
                      LET k == Cardinality({j \in 1..Len(rels) : rels[j].id = rels[r].id})
                          Reports(i) == /\ i.type = "DUPLICATE_RID"
                                        /\ i.source = src
                                        /\ i.rid = rels[r].id
                          Exact(i) == Reports(i) /\ i.count = k
                      IN  IF k >= 2
                          THEN /\ HowMany(LastRunIssues, Reports) = 1
                               /\ HowMany(LastRunIssues, Exact) = 1
                          ELSE HowMany(LastRunIssues, Reports) = 0
        /\ \A n \in 1..Len(LastRunIssues) :
              LastRunIssues[n].type = "DUPLICATE_RID" =>
                  \E s \in 1..Len(relations) :
                      /\ relations[s][1] = LastRunIssues[n].source
                      /\ \E r \in 1..Len(relations[s][2]) :
                            relations[s][2][r].id = LastRunIssues[n].rid

\* a source holds an id twice while another source holds the same id once
C9_Witness ==
    /\ ValidationRan
    /\ \E s, t \in 1..Len(relations) :
          /\ s # t
          /\ \E id \in {"rId1", "rId2"} :
                /\ Cardinality({j \in 1..Len(relations[s][2]) :
                                    relations[s][2][j].id = id}) >= 2
                /\ Cardinality({j \in 1..Len(relations[t][2]) :
                                    relations[t][2][j].id = id}) = 1
    /\ \E n \in 1..Len(LastRunIssues) : LastRunIssues[n].type = "DUPLICATE_RID"

\* C10: validation appends a BROKEN_REF issue for a relationship iff it is
\* Internal and its resolved path (the empty path included) is not a loaded
\* part name; External relationships never get one.
C10_BrokenRef ==
    ValidationRan =>
        LET parts == {files[i][1] : i \in 1..Len(files)}
        IN  \A s \in 1..Len(relations) :
              LET src  == relations[s][1]
                  rels == relations[s][2]
              IN  \A r \in 1..Len(rels) :
                      LET Same(j) == /\ rels[j].id = rels[r].id
                                     /\ rels[j].resolved = rels[r].resolved
                          Reports(i) == /\ i.type = "BROKEN_REF"
                                        /\ i.source = src
                                        /\ i.rid = rels[r].id
                                        /\ i.target = rels[r].resolved
                      IN  HowMany(LastRunIssues, Reports)
                            = Cardinality({j \in 1..Len(rels) :
                                              /\ Same(j)
                                              /\ rels[j].mode # "External"
                                              /\ rels[j].resolved \notin parts})


\* the authors table: the ids of ppt/commentAuthors.xml, empty when the part
\* is absent
AuthorsTable ==
    IF DictHas(files, CommentAuthorsXml) /\ DictGet(files, CommentAuthorsXml).wf
    THEN {Get(a, "id")[1] :
            a \in {x \in {FindAll(DictGet(files, CommentAuthorsXml), "cmAuthor")[i] :
                            i \in 1..Len(FindAll(DictGet(files, CommentAuthorsXml), "cmAuthor"))} :
                      Truthy(Get(x, "id"))}}
    ELSE {}

AuthorsMalformed ==
    DictHas(files, CommentAuthorsXml) /\ ~DictGet(files, CommentAuthorsXml).wf

\* C11: every comment, in every comment part, whose author-id is not in the
\* authors table yields one COMMENT_INVALID_AUTHOR_ID issue naming the part
\* and the author-id, also when ppt/commentAuthors.xml is absent (empty
\* table); a comment by a listed author yields none; a comment part or an
\* authors part that is not well-formed yields an issue and validation
\* completes.
C11_CommentAuthors ==
    (ValidationRan /\ exc = "none") =>
        /\ AuthorsMalformed =>
              \E n \in 1..Len(LastRunIssues) :
                  LastRunIssues[n].type = "INVALID_COMMENT_AUTHORS_XML"
        /\ ~AuthorsMalformed =>
              \A f \in 1..Len(files) :
                  LET name == files[f][1]
                      doc  == files[f][2]
                      Bad(i) == i.type = "INVALID_COMMENT_XML" /\ i.path = name
                  IN  IsComment(name) =>
                        IF ~doc.wf THEN HowMany(LastRunIssues, Bad) = 1
                        ELSE \A c \in 1..Len(FindAll(doc, "cm")) :
                               LET id == Get(FindAll(doc, "cm")[c], "authorId")
                                   Reports(i) == /\ i.type = "COMMENT_INVALID_AUTHOR_ID"
                                                 /\ i.file = name
                                                 /\ i.author_id = id[1]
                                   k == Cardinality({d \in 1..Len(FindAll(doc, "cm")) :
                                          Get(FindAll(doc, "cm")[d], "authorId") = id})
                               IN  Truthy(id) =>
                                     HowMany(LastRunIssues, Reports)
                                       = (IF id[1] \in AuthorsTable THEN 0 ELSE k)

(***************************************************************************)
(* Properties of the comparator.                                           *)
(***************************************************************************)
\* compare() has returned on the comparator
Compared == cpc = "compared"

\* what compare() appends with the two packages exchanged
ReverseDiffs == compare(Repaired, Corrupt, hashSeed).diffs

\* a list of diffs holds a diff of type t about the part f
HasPartDiff(list, t, field, f) ==
    \E j \in 1..Len(list) : list[j].type = t /\ list[j][field] = f

\* the kind of item a content-level diff is about, "" for any other diff
ItemKind(d) ==
    CASE d.type \in {"CONTENT_TYPE_REMOVED", "CONTENT_TYPE_CHANGED"} -> "override"
      [] d.type \in {"RELATION_REMOVED", "RELATION_TARGET_CHANGED"} -> "relation"
      [] d.type = "SLIDE_ID_LIST_CHANGED" -> "slideIdList"
      [] d.type = "PRES_RELS_TYPE_COUNT_CHANGED" -> "presRelKind"
      [] d.type = "PRES_RELS_TOTAL_COUNT_CHANGED" -> "presRelTotal"
      [] d.type \in {"SECTION_REMOVED", "SECTION_ADDED", "SECTION_SLIDES_CHANGED"}
            -> "section"
      [] d.type \in {"NOTESLIDE_REMOVED", "NOTESLIDE_ADDED",
                     "NOTESLIDE_SLIDE_REF_CHANGED", "NOTESLIDE_MASTER_REF_CHANGED"}
            -> "notesSlide"
      [] d.type \in {"APP_SLIDE_COUNT_CHANGED", "APP_NOTE_COUNT_CHANGED",
                     "APP_HIDDEN_SLIDE_COUNT_CHANGED"} -> "appCount"
      [] OTHER -> ""

\* two content-level diffs are about the same item
SameItem(d, e) ==
    /\ ItemKind(d) # ""
    /\ ItemKind(d) = ItemKind(e)
    /\ CASE ItemKind(d) = "override"    -> d.part = e.part
          [] ItemKind(d) = "relation"    -> d.source = e.source /\ d.rid = e.rid
          [] ItemKind(d) = "presRelKind" -> d.rel_type = e.rel_type
          [] ItemKind(d) = "section"     -> d.section_name = e.section_name
          [] ItemKind(d) = "notesSlide"  -> d.noteslide = e.noteslide
          [] ItemKind(d) = "appCount"    -> d.type = e.type
          [] OTHER -> TRUE

\* the removed/added diffs of the two directions mirror each other, each
\* with the severity its direction always has
PartDiffsMirrored(ab, ba) ==
    \A i \in 1..Len(ab) :
        /\ ab[i].type = "FILE_REMOVED" =>
              ab[i].severity = "HIGH" /\ HasPartDiff(ba, "FILE_ADDED", "file", ab[i].file)
        /\ ab[i].type = "FILE_ADDED" =>
              ab[i].severity = "MEDIUM" /\ HasPartDiff(ba, "FILE_REMOVED", "file", ab[i].file)
        /\ ab[i].type = "NOTESLIDE_REMOVED" =>
              HasPartDiff(ba, "NOTESLIDE_ADDED", "noteslide", ab[i].noteslide)
        /\ ab[i].type = "NOTESLIDE_ADDED" =>
              HasPartDiff(ba, "NOTESLIDE_REMOVED", "noteslide", ab[i].noteslide)
        /\ ab[i].type = "COMMENT_FILE_REMOVED" =>
              HasPartDiff(ba, "COMMENT_FILE_ADDED", "file", ab[i].file)
        /\ ab[i].type = "COMMENT_FILE_ADDED" =>
              HasPartDiff(ba, "COMMENT_FILE_REMOVED", "file", ab[i].file)

\* every CRITICAL or HIGH content-level diff of ab has a counterpart in ba
ContentDiffsMirrored(ab, ba) ==
    \A i \in 1..Len(ab) :
        (ab[i].severity \in {"CRITICAL", "HIGH"} /\ ItemKind(ab[i]) # "")
            => \E j \in 1..Len(ba) : SameItem(ab[i], ba[j])

\* C12: compare(A, B) and compare(B, A) are symmetric: a part removed in
\* one direction is added in the other and vice versa, and every CRITICAL or
\* HIGH content-level diff of compare(A, B) has a counterpart about the
\* same item in compare(B, A).
C12_CompareSymmetric ==
    Compared =>
        /\ PartDiffsMirrored(diffs, ReverseDiffs)
        /\ ContentDiffsMirrored(diffs, ReverseDiffs)

\* _generate_hypotheses() has just returned its list
HypothesesReturned == returned.call = "_generate_hypotheses"

MisplacedTitle == "CRITICAL: Misplaced relations in presentation.xml.rels"
FallbackTitle  == "No obvious issues detected"

\* how many entries of a list of records have a field equal to a value
CountWhere(list, field, v) == Cardinality({i \in 1..Len(list) : list[i][field] = v})

\* the corrupt model reports a misplaced presentation relationship
MisplacedIssue ==
    \E i \in 1..Len(Corrupt.issues) :
        Corrupt.issues[i].type \in
            {"INVALID_PRESENTATION_RELS"}
            \cup {PresRelsInvalidType(k) : k \in INVALID_PRES_REL_TYPES}

\* the diff list holds a CRITICAL relationship-kind count diff
MisplacedDiff ==
    \E i \in 1..Len(diffs) :
        diffs[i].type = "PRES_RELS_TYPE_COUNT_CHANGED" /\ diffs[i].severity = "CRITICAL"

\* C13: whenever the misplaced-relationship rule triggers (by an issue of
\* the corrupt model or by a CRITICAL kind-count diff), its hypothesis is
\* the first element of the hypothesis list, whatever else triggers, and it
\* appears exactly once.
C13_MisplacedFirst ==
    (HypothesesReturned /\ (MisplacedIssue \/ MisplacedDiff)) =>
        /\ returned.value[1].title = MisplacedTitle
        /\ CountWhere(returned.value, "title", MisplacedTitle) = 1

\* the rule triggers by a diff alone and by an issue alone, with other rules
C13_Witness ==
    /\ HypothesesReturned
    /\ MisplacedIssue \/ MisplacedDiff
    /\ Len(returned.value) >= 3
    /\ returned.value[1].title = MisplacedTitle

\* the types of a list of issues or diffs
Types(list) == {list[i].type : i \in 1..Len(list)}

\* the types of the CRITICAL and HIGH diffs
SevereTypes(list) ==
    {list[i].type : i \in {j \in 1..Len(list) : list[j].severity \in {"CRITICAL", "HIGH"}}}

\* the titles of the rules whose evidence is present in the corrupt model's
\* issues and the diff list
TriggeredRules ==
    LET it == Types(Corrupt.issues)
        dt == Types(diffs)
        st == SevereTypes(diffs)
    IN  {t \in {"CRITICAL: Duplicate rId in .rels files"} : "DUPLICATE_RID" \in it}
        \cup {t \in {"CRITICAL: Duplicate slideId/slideMasterId in presentation.xml"} :
                  it \cap {"DUPLICATE_SLIDE_ID", "DUPLICATE_MASTER_ID"} # {}}
        \cup {t \in {"SlideLayout missing slideMaster relation"} : "LAYOUT_NO_MASTER" \in it}
        \cup {t \in {"Orphan Parts (unreferenced files)"} : "FILE_REMOVED" \in dt}
        \cup {t \in {"Broken Relations (rId points to non-existent part)"} :
                  "BROKEN_REF" \in it}
        \cup {t \in {"Invalid Relations Structure"} :
                  dt \cap {"RELATION_REMOVED", "RELATION_TARGET_CHANGED"} # {}}
        \cup {t \in {"Inconsistent slideIdList"} : "SLIDE_ID_LIST_CHANGED" \in dt}
        \cup {t \in {"NoteSlide Reference Issues"} :
                  \/ it \cap {"NOTESLIDE_MISSING_SLIDE_REF", "NOTESLIDE_NO_MASTER"} # {}
                  \/ st \cap {"NOTESLIDE_REMOVED", "NOTESLIDE_SLIDE_REF_CHANGED",
                               "NOTESLIDE_MASTER_REF_CHANGED"} # {}}
        \cup {t \in {"Section Reference Issues"} :
                  \/ "SECTION_INVALID_SLIDE_REF" \in it
                  \/ st \cap {"SECTION_REMOVED", "SECTION_SLIDES_CHANGED"} # {}}
        \cup {t \in {"App Properties Count Mismatch"} :
                  \/ it \cap {"APP_SLIDE_COUNT_MISMATCH", "APP_NOTE_COUNT_MISMATCH"} # {}
                  \/ st \cap {"APP_SLIDE_COUNT_CHANGED", "APP_NOTE_COUNT_CHANGED"} # {}}
        \cup {t \in {"NotesMaster Missing or Invalid"} : "MISSING_NOTESMASTER_REL" \in it}
        \cup {t \in {MisplacedTitle} : MisplacedIssue \/ MisplacedDiff}

\* C14: the hypothesis list is never empty; it is exactly the single
\* fallback hypothesis iff no rule triggers; the fallback never appears with
\* another hypothesis; each rule contributes at most one hypothesis (and
\* every triggered rule contributes one).
C14_HypothesesShape ==
    HypothesesReturned =>
        LET h == returned.value
        IN  /\ h # <<>>
            /\ (TriggeredRules = {}) <=> (Len(h) = 1 /\ h[1].title = FallbackTitle)
            /\ CountWhere(h, "title", FallbackTitle) >= 1 => Len(h) = 1
            /\ \A i, j \in 1..Len(h) : h[i].title = h[j].title => i = j
            /\ TriggeredRules # {} => {h[i].title : i \in 1..Len(h)} = TriggeredRules

\* the fallback alone although the packages differ, and several rules at once
C14_Witness ==
    /\ HypothesesReturned
    /\ Compared
    /\ \/ TriggeredRules = {} /\ diffs # <<>>
       \/ Cardinality(TriggeredRules) >= 3

\* compare() has run, to its end or to an exception
CompareRan == cpc \in {"compared", "raised"}

\* the presentation's relationship set of a model
PresRels(a) == DictGetOr(a.relations, PresentationXml, <<>>)

\* the number of relationships of one kind
KindCount(rels, kind) ==
    Cardinality({i \in 1..Len(rels) : RelTypeName(rels[i]) = kind})

\* the kinds of a relationship set
KindsOf(rels) == {RelTypeName(rels[i]) : i \in 1..Len(rels)}

\* the positions of the kind-count diffs of one kind, and of the total diffs
KindCountDiffs(kind) ==
    {i \in 1..Len(diffs) :
        diffs[i].type = "PRES_RELS_TYPE_COUNT_CHANGED" /\ diffs[i].rel_type = kind}
TotalCountDiffs ==
    {i \in 1..Len(diffs) : diffs[i].type = "PRES_RELS_TOTAL_COUNT_CHANGED"}

\* C15: for each relationship kind of the presentation whose count differs
\* between the models there is exactly one PRES_RELS_TYPE_COUNT_CHANGED diff
\* with both counts, CRITICAL for image, slideLayout and notesSlide and HIGH
\* otherwise; kinds with equal counts have none; and there is exactly one
\* PRES_RELS_TOTAL_COUNT_CHANGED diff iff the totals differ.
C15_PresRelsCounts ==
    CompareRan =>
        LET c_rels == PresRels(Corrupt)
            r_rels == PresRels(Repaired)
            kinds == KindsOf(c_rels) \cup KindsOf(r_rels)
        IN  /\ \A kind \in kinds :
                    LET cc == KindCount(c_rels, kind)
                        rc == KindCount(r_rels, kind)
                    IN  IF cc = rc THEN KindCountDiffs(kind) = {}
                        ELSE /\ Cardinality(KindCountDiffs(kind)) = 1
                             /\ \A i \in KindCountDiffs(kind) :
                                    /\ diffs[i].corrupt_count = cc
                                    /\ diffs[i].repaired_count = rc
                                    /\ diffs[i].severity =
                                         IF kind \in {"image", "slideLayout",
                                                      "notesSlide"}
                                         THEN "CRITICAL" ELSE "HIGH"
            /\ \A i \in 1..Len(diffs) :
                    diffs[i].type = "PRES_RELS_TYPE_COUNT_CHANGED" => diffs[i].rel_type \in kinds
            /\ IF Len(c_rels) = Len(r_rels) THEN TotalCountDiffs = {}
               ELSE /\ Cardinality(TotalCountDiffs) = 1
                    /\ \A i \in TotalCountDiffs :
                           /\ diffs[i].corrupt_count = Len(c_rels)
                           /\ diffs[i].repaired_count = Len(r_rels)
                           /\ diffs[i].severity = "HIGH"

\* one image, one notesSlide and one theme relationship in the corrupt set,
\* one slide relationship in the repaired one: a diff for each of the four
\* kinds, CRITICAL for image and notesSlide and HIGH for theme and slide, and
\* one for the totals
C15_Witness ==
    /\ CompareRan
    /\ KindsOf(PresRels(Corrupt)) = {"image", "notesSlide", "theme"}
    /\ KindsOf(PresRels(Repaired)) = {"slide"}
    /\ \A kind \in {"image", "notesSlide"} :
           \E i \in KindCountDiffs(kind) :
               /\ diffs[i].severity = "CRITICAL"
               /\ diffs[i].corrupt_count = 1
               /\ diffs[i].repaired_count = 0
    /\ \E i \in KindCountDiffs("theme") :
           /\ diffs[i].severity = "HIGH"
           /\ diffs[i].corrupt_count = 1
           /\ diffs[i].repaired_count = 0
    /\ \E i \in KindCountDiffs("slide") :
           /\ diffs[i].severity = "HIGH"
           /\ diffs[i].corrupt_count = 0
           /\ diffs[i].repaired_count = 1
    /\ \E i \in TotalCountDiffs :
           diffs[i].corrupt_count = 3 /\ diffs[i].repaired_count = 1

\* the application-properties part of the package, when present and well-formed
HasAppProperties == DictHas(files, AppXml) /\ DictGet(files, AppXml).wf

\* the count an element of the part declares, where it declares a number
DeclaresNumber(path) ==
    /\ Truthy(ElemText(DictGet(files, AppXml), path))
    /\ IsIntText(ElemText(DictGet(files, AppXml), path)[1])
Declared(path) == IntOf(ElemText(DictGet(files, AppXml), path)[1])

\* the number of loaded parts whose name satisfies the naming pattern
ActualSlides == Cardinality({i \in 1..Len(files) : IsSlide(files[i][1])})
ActualNotes  == Cardinality({i \in 1..Len(files) : IsNotesSlide(files[i][1])})

\* the issues of one type the latest validation appended
LastRunOfType(t) == {n \in 1..Len(LastRunIssues) : LastRunIssues[n].type = t}

\* C16: with docProps/app.xml present and well-formed, validation appends
\* exactly one APP_SLIDE_COUNT_MISMATCH issue carrying declared and actual
\* iff the declared slide count differs from the number of slide parts, and
\* exactly one APP_NOTE_COUNT_MISMATCH iff the declared notes count differs
\* from the number of notes-slide parts; with the part absent, neither.
C16_AppCounts ==
    ValidationRan =>
        /\ (HasAppProperties /\ DeclaresNumber("Slides")) =>
              IF Declared("Slides") = ActualSlides
              THEN LastRunOfType("APP_SLIDE_COUNT_MISMATCH") = {}
              ELSE /\ Cardinality(LastRunOfType("APP_SLIDE_COUNT_MISMATCH")) = 1
                   /\ \A n \in LastRunOfType("APP_SLIDE_COUNT_MISMATCH") :
                          /\ LastRunIssues[n].declared = Declared("Slides")
                          /\ LastRunIssues[n].actual = ActualSlides
        /\ (HasAppProperties /\ DeclaresNumber("Notes")) =>
              IF Declared("Notes") = ActualNotes
              THEN LastRunOfType("APP_NOTE_COUNT_MISMATCH") = {}
              ELSE /\ Cardinality(LastRunOfType("APP_NOTE_COUNT_MISMATCH")) = 1
                   /\ \A n \in LastRunOfType("APP_NOTE_COUNT_MISMATCH") :
                          /\ LastRunIssues[n].declared = Declared("Notes")
                          /\ LastRunIssues[n].actual = ActualNotes
        /\ ~DictHas(files, AppXml) =>
              /\ LastRunOfType("APP_SLIDE_COUNT_MISMATCH") = {}
              /\ LastRunOfType("APP_NOTE_COUNT_MISMATCH") = {}

\* the names of the parts of a model that carry a fingerprint
Carrying(a, h) == {a.hashes[i][1] : i \in {j \in 1..Len(a.hashes) : a.hashes[j][2] = h}}

\* the fingerprints of a model
Fingerprints(a) == {a.hashes[i][2] : i \in 1..Len(a.hashes)}

\* the positions of the rename diffs of one fingerprint
RenameDiffs(h) ==
    {i \in 1..Len(diffs) : diffs[i].type = "RENAMED_IDENTICAL_CONTENT" /\ diffs[i].hash = h}

\* the positions of the content-changed diffs of the parts of a set
ContentChangedDiffs(names) ==
    {i \in 1..Len(diffs) :
        /\ diffs[i].type \in {"XML_CONTENT_CHANGED", "SLIDE_CLRMAPOVR_RID_CHANGED",
                              "SLIDE_SHAPE_COUNT_CHANGED",
                              "SLIDEMASTER_LAYOUT_COUNT_CHANGED",
                              "SLIDELAYOUT_TYPE_CHANGED"}
        /\ diffs[i].file \in names}

\* a fingerprint in both models under differing name sets
Renamed(h) ==
    /\ Carrying(Corrupt, h) # {}
    /\ Carrying(Repaired, h) # {}
    /\ Carrying(Corrupt, h) # Carrying(Repaired, h)

\* every renamed fingerprint has exactly one INFO rename diff
RenamesReported ==
    \A h \in Fingerprints(Corrupt) \cup Fingerprints(Repaired) :
        Renamed(h) =>
            /\ Cardinality(RenameDiffs(h)) = 1
            /\ \A i \in RenameDiffs(h) : diffs[i].severity = "INFO"

\* no part carrying a renamed fingerprint has a content-changed diff
RenamesNotContentChanges ==
    \A h \in Fingerprints(Corrupt) \cup Fingerprints(Repaired) :
        Renamed(h) =>
            ContentChangedDiffs(Carrying(Corrupt, h) \cup Carrying(Repaired, h)) = {}

\* no other fingerprint has a rename diff
OnlyRenamesReported ==
    /\ \A h \in Fingerprints(Corrupt) \cup Fingerprints(Repaired) :
           ~Renamed(h) => RenameDiffs(h) = {}
    /\ \A i \in 1..Len(diffs) :
           diffs[i].type = "RENAMED_IDENTICAL_CONTENT" =>
               diffs[i].hash \in Fingerprints(Corrupt) \cap Fingerprints(Repaired)

\* C17: for a fingerprint present in both packages under differing name
\* sets compare emits exactly one INFO RENAMED_IDENTICAL_CONTENT diff and no
\* content-changed diff for the parts carrying it; a fingerprint under the
\* same name set in both, or in one package only, yields no rename diff.
C17_RenamedIdentical ==
    CompareRan => RenamesReported /\ RenamesNotContentChanges /\ OnlyRenamesReported

\* the package model an analyzer object holds
ModelOf(a) ==
    [files |-> a.files, hashes |-> a.hashes, content_types |-> a.content_types,
     default_types |-> a.default_types, relations |-> a.relations, issues |-> a.issues]

\* a step of the comparator or of a data extractor: compare() ran, or a
\* query returned to the caller
ReadingStep ==
    \/ cpc = "new" /\ cpc' \in {"compared", "raised"}
    \/ returned' # returned

\* a step in which _generate_hypotheses() or generate_report() returns
ReportingStep ==
    /\ returned' # returned
    /\ returned'.call \in {"_generate_hypotheses", "generate_report"}

\* C18: once the models are built, compare() with its sub-comparisons, the
\* data extractors, _generate_hypotheses() and generate_report() leave the
\* files, fingerprints, content-type tables, relationship graph and issue
\* list of both analyzers unchanged, and the last two leave the diff list
\* unchanged too.
C18_ReadOnly ==
    [][ /\ ReadingStep =>
            /\ ModelOf(Corrupt)' = ModelOf(Corrupt)
            /\ ModelOf(Repaired)' = ModelOf(Repaired)
        /\ ReportingStep => diffs' = diffs ]_vars

\* a report made after a comparison that found diffs, over models that hold
\* issues and relationships
C18_Witness ==
    /\ Compared
    /\ returned.call = "generate_report"
    /\ diffs # <<>>
    /\ Corrupt.issues # <<>>
    /\ Repaired.relations # <<>>

\* all four analyzers have ended their analyze() call
AllFinished == \A n \in Analyzers : Finished(Object(n))

\* what an analyze() call leaves: the model, and how the call ended
Outcome(a) == [model |-> ModelOf(a), pc |-> a.pc, exc |-> a.exc]

\* C19: two analyzers share no mutable state: whatever the interleaving of
\* their build steps, the two final models and issue lists are those of
\* building one fully and then the other, and no step of one analyzer
\* changes any field of another.
C19_Independent ==
    /\ [](AllFinished =>
            /\ Outcome(Object("corrupt")) = Outcome(Object("corrupt_alone"))
            /\ Outcome(Object("repaired")) = Outcome(Object("repaired_alone")))
    /\ [][\A n \in Analyzers : (n # cur \/ cur' # cur) => Object(n)' = Object(n)]_vars

\* both concurrent analyzers in the middle of their builds, at different
\* steps, over different archives, each with issues of its own
C19_Witness ==
    /\ Object("corrupt").pc \in {"ct", "rels"}
    /\ Object("repaired").pc \in {"ct", "rels"}
    /\ Object("corrupt").pc # Object("repaired").pc
    /\ Object("corrupt").zip # Object("repaired").zip
    /\ Object("corrupt").issues # <<>>
    /\ Object("repaired").issues # <<>>
    /\ Object("corrupt").issues # Object("repaired").issues

\* the archive holds no manifest part
ManifestAbsent == \A i \in 1..Len(zip) : zip[i][1] # ContentTypesXml

\* the parts that need a content type: neither a relationship descriptor
\* nor the manifest
TypedParts ==
    {files[i][1] : i \in {j \in 1..Len(files) :
        /\ ~EndsWith(files[j][1], ".rels")
        /\ files[j][1] # ContentTypesXml}}

\* the issues of the first analyze() call that report a missing content type
\* for a part
MissingTypeIssues(part) ==
    {n \in 1..Len(issues) :
        issues[n].type = "MISSING_CONTENT_TYPE" /\ issues[n].part = part}

\* the manifest step of the first analyze() call is over
ManifestStepOver == runs = 1 /\ pc \in {"ct", "rels", "done", "raised"}

\* what the manifest step leaves when the manifest is absent
AbsentManifestDegrades ==
    /\ Cardinality({n \in 1..Len(issues) : issues[n].type = "CRITICAL"}) = 1
    /\ default_types = <<>>
    /\ content_types = <<>>

\* C20: with the manifest absent, exactly one CRITICAL issue is appended,
\* nothing is raised, both tables stay empty, and relationship parsing and
\* validation still run, so that every part that is neither a relationship
\* descriptor nor the manifest gets a MISSING_CONTENT_TYPE issue.
C20_AbsentManifest ==
    (ManifestAbsent /\ ManifestStepOver) =>
        /\ AbsentManifestDegrades
        /\ pc # "raised" /\ exc = "none"
        /\ pc = "done" => \A part \in TypedParts : Cardinality(MissingTypeIssues(part)) = 1

\* the descriptors of the package: the loaded parts named *.rels
Descriptors == {files[i][1] : i \in {j \in 1..Len(files) : EndsWith(files[j][1], ".rels")}}

\* the first analyze() call has ended, by returning or by raising
FirstAnalyzeEnded == runs = 1 /\ pc \in {"done", "raised"}

\* the ERROR issues that name a descriptor
ErrorIssues(d) ==
    {n \in 1..Len(issues) : issues[n].type = "ERROR" /\ issues[n].path = d}

\* the ids, in order, of the Relationship elements of a descriptor
DeclaredIds(d) ==
    LET els == FindAll(DictGet(files, d), "Relationship")
    IN  [i \in 1..Len(els) |-> Attr(els[i], "Id", "")]

\* the ids, in order, of the relationship set of a source part
ParsedIds(src) ==
    LET rels == DictGetOr(relations, src, <<>>)
    IN  [i \in 1..Len(rels) |-> rels[i].id]

\* the source part of a descriptor; the descriptors used here all lie in a
\* _rels directory or are the root descriptor
Owner(d) == IF RelsToPartRaises(d) THEN "?" ELSE _rels_to_part(d)

\* what a descriptor that is not well-formed leaves, and what it leaves alone
MalformedDescriptorsIsolated ==
    \A d \in Descriptors :
        IF ~DictGet(files, d).wf
        THEN /\ Cardinality(ErrorIssues(d)) = 1
             /\ ~RelsToPartRaises(d) => DictGetOr(relations, Owner(d), <<>>) = <<>>
        ELSE /\ ErrorIssues(d) = {}
             /\ ~RelsToPartRaises(d) => ParsedIds(Owner(d)) = DeclaredIds(d)

\* C21: a descriptor that is not well-formed XML yields exactly one ERROR
\* issue naming it and an empty relationship set for its source part; all
\* other descriptors of the package are still parsed, their relationship
\* sets unaffected.
C21_MalformedDescriptor ==
    (FirstAnalyzeEnded /\ \E d \in Descriptors : ~DictGet(files, d).wf)
        => MalformedDescriptorsIsolated

\* the text of a part name after its last '.', empty when it has none
ExtOf(part) ==
    IF \A i \in 1..Len(part) : Char(part, i) # "." THEN ""
    ELSE LET k == CHOOSE i \in 1..Len(part) :
                     Char(part, i) = "."
                     /\ \A j \in (i + 1)..Len(part) : Char(part, j) # "."
         IN  SubSeq(part, k + 1, Len(part))

\* the issues of the latest validation that report a missing content type
\* for a part
LastRunMissingType(part) ==
    {n \in 1..Len(LastRunIssues) :
        LastRunIssues[n].type = "MISSING_CONTENT_TYPE" /\ LastRunIssues[n].part = part}

\* a part that has to have a content type and has none
LacksContentType(part) ==
    /\ ~EndsWith(part, ".rels")
    /\ part # ContentTypesXml
    /\ ~DictHas(content_types, part)
    /\ ~DictHas(default_types, ExtOf(part))

\* C22: validation appends one MISSING_CONTENT_TYPE issue for a part iff the
\* part is neither a relationship descriptor nor the manifest, has no
\* override under its exact path and its extension has no default; each
\* such part is reported exactly once.
C22_MissingContentType ==
    ValidationRan =>
        \A i \in 1..Len(files) :
            Cardinality(LastRunMissingType(files[i][1]))
                = (IF LacksContentType(files[i][1]) THEN 1 ELSE 0)

\* the issues of a type that the latest validation appended for a part
LastRunAbout(t, part) ==
    {n \in 1..Len(LastRunIssues) :
        LastRunIssues[n].type = t /\ LastRunIssues[n].part = part}

\* the relationship set of a part holds a relationship of a kind, the kind
\* of a relationship being the last segment of its type (lines 316, 793)
HasRelOfKind(part, kind) ==
    \E i \in 1..Len(DictGetOr(relations, part, <<>>)) :
        RelTypeName(DictGetOr(relations, part, <<>>)[i]) = kind

\* the descriptor part of a slide layout
DescriptorOfLayout(name) ==
    ContainingDir(name) \o "/_rels/" \o Last(Split(name, "/")) \o ".rels"

\* C23: for every slide-layout part validation appends at most one issue:
\* MISSING_LAYOUT_RELS iff the layout's descriptor part is absent; otherwise
\* LAYOUT_NO_MASTER iff the layout's relationship set holds no slideMaster
\* relationship (an unparsable descriptor included); neither otherwise.
C23_LayoutMaster ==
    ValidationRan =>
        \A i \in 1..Len(files) :
            LET name == files[i][1]
                missing == Cardinality(LastRunAbout("MISSING_LAYOUT_RELS", name))
                nomaster == Cardinality(LastRunAbout("LAYOUT_NO_MASTER", name))
            IN  IsLayout(name) =>
                    IF ~DictHas(files, DescriptorOfLayout(name))
                    THEN missing = 1 /\ nomaster = 0
                    ELSE IF ~HasRelOfKind(name, "slideMaster")
                    THEN missing = 0 /\ nomaster = 1
                    ELSE missing = 0 /\ nomaster = 0

\* the relationship id cited by the colour-map override of a well-formed
\* part, None when it has no override or the override cites none
CitedRid(name) ==
    LET clr == FindAll(DictGet(files, name), "clrMapOvr")
    IN  IF clr = <<>> THEN None ELSE Get(clr[1], "rid")

\* the relationship set of a part holds a relationship with an id and a kind
HasRelWithIdOfKind(part, id, kind) ==
    \E i \in 1..Len(DictGetOr(relations, part, <<>>)) :
        /\ DictGetOr(relations, part, <<>>)[i].id = id
        /\ RelTypeName(DictGetOr(relations, part, <<>>)[i]) = kind

\* the issues of a type that the latest validation appended for a notes slide
LastRunAboutNotes(t, name) ==
    {n \in 1..Len(LastRunIssues) :
        LastRunIssues[n].type = t /\ LastRunIssues[n].noteslide = name}

\* the slide-reference rule for one well-formed notes slide
SlideRefReported(name) ==
    Cardinality(LastRunAboutNotes("NOTESLIDE_MISSING_SLIDE_REF", name))
        = (IF Truthy(CitedRid(name)) /\ ~HasRelWithIdOfKind(name, CitedRid(name)[1], "slide")
           THEN 1 ELSE 0)

\* the notes-master rule for one well-formed notes slide
NoMasterReported(name) ==
    Cardinality(LastRunAboutNotes("NOTESLIDE_NO_MASTER", name))
        = (IF ~HasRelOfKind(name, "notesMaster") THEN 1 ELSE 0)

\* C24: for every well-formed notes slide, NOTESLIDE_MISSING_SLIDE_REF is
\* appended iff its colour-map override cites an id R and its relationship
\* set has no relationship with id R of the slide kind (one of the kind
\* slideLayout or slideMaster does not count); independently,
\* NOTESLIDE_NO_MASTER is appended iff the set holds no notesMaster
\* relationship.
C24_NotesSlideRefs ==
    ValidationRan =>
        \A i \in 1..Len(files) :
            (IsNotesSlide(files[i][1]) /\ files[i][2].wf) =>
                SlideRefReported(files[i][1]) /\ NoMasterReported(files[i][1])

\* relationship parsing of the latest analyze() call is over
RelationsBuilt == pc \in {"rels", "done"} \/ ValidationRan

\* the 'resolved' field of a relationship is unset (a str is never None)
Unresolved(rel) == "resolved" \notin DOMAIN rel

\* External relationships carry no resolved path, all others the resolved
\* path of their target
ResolvedOnlyInternal ==
    \A s \in 1..Len(relations) :
        \A r \in 1..Len(relations[s][2]) :
            LET rel == relations[s][2][r]
            IN  IF rel.mode = "External" THEN Unresolved(rel)
                ELSE rel.resolved = _resolve_target(relations[s][1], rel.target)

\* the targets of the External relationships of a part
ExternalTargets(part) ==
    {DictGetOr(relations, part, <<>>)[i].target :
        i \in {j \in 1..Len(DictGetOr(relations, part, <<>>)) :
                  DictGetOr(relations, part, <<>>)[j].mode = "External"}}

\* the notes-slide extractor hands out no external address as a part path
NoExternalPartPath ==
    \A i \in 1..Len(get_noteslides_data(Self).data) :
        LET name == get_noteslides_data(Self).data[i][1]
            data == get_noteslides_data(Self).data[i][2]
        IN  \A t \in ExternalTargets(name) :
                data.slide_target # <<t>> /\ data.master_target # <<t>>

\* C25: in every built model an External relationship has no resolved path
\* (unset, not the literal target) and every other relationship has
\* resolved = resolve(source, target); so no consumer of 'resolved' sees an
\* external address as a part path.
C25_ResolvedOnlyInternal ==
    RelationsBuilt => ResolvedOnlyInternal /\ NoExternalPartPath

\* the issue names the part in one of its path-valued fields
IdentifiesPart(issue, part) ==
    \E f \in DOMAIN issue \cap {"path", "source", "part", "noteslide", "file"} :
        issue[f] = part

\* the parts the presentation-id and notes-slide checks parse that are present
\* but not well-formed
MalformedCheckedParts ==
    {files[i][1] : i \in {j \in 1..Len(files) :
        /\ files[j][1] = PresentationXml \/ IsNotesSlide(files[j][1])
        /\ ~files[j][2].wf}}

\* the issues of the latest validation run that identify the part
LastRunIdentifying(part) ==
    {n \in 1..Len(LastRunIssues) : IdentifiesPart(LastRunIssues[n], part)}

\* C26: when 'ppt/presentation.xml' or a notes-slide part is present but not
\* well-formed, validation goes on and an issue identifying the malformed part
\* is appended to the issue list.
C26_MalformedPartReported ==
    ValidationRan =>
        \A part \in MalformedCheckedParts : LastRunIdentifying(part) # {}

\* the presentation-level slide-id list of a model
SlideIdList(a) == get_presentation_data(a).data.slideIdList

\* the positions of the slide-id-list diffs
SlideIdListDiffs == {i \in 1..Len(diffs) : diffs[i].type = "SLIDE_ID_LIST_CHANGED"}

\* C27: compare() emits exactly one CRITICAL SLIDE_ID_LIST_CHANGED diff when
\* the two presentation-level slide-id lists differ in any way (an id, a
\* relationship id, the number of entries, also when two entries share a
\* relationship id, or the order of the same entries), and none when they are
\* the same list.
C27_SlideIdListChanged ==
    CompareRan =>
        /\ Cardinality(SlideIdListDiffs) =
               IF SlideIdList(Corrupt) # SlideIdList(Repaired) THEN 1 ELSE 0
        /\ \A i \in SlideIdListDiffs : diffs[i].severity = "CRITICAL"

\* the parts of both models whose name ends in '.xml'
CommonXmlParts ==
    {f \in SetOf(Keys(Corrupt.files)) \cap SetOf(Keys(Repaired.files)) :
        EndsWith(f, ".xml")}

\* the positions of the generic content diffs of a part
ContentDiffsOf(f) ==
    {i \in 1..Len(diffs) : diffs[i].type = "XML_CONTENT_CHANGED" /\ diffs[i].file = f}

\* the part is handled by a slide, master or layout comparison
SpecificallyCompared(f) == IsSlide(f) \/ IsSlideMaster(f) \/ IsLayout(f)

\* C28: after a compare() that returned, every '.xml' part present in both
\* models with differing bytes that is no slide, master or layout part
\* ('ppt/presentation.xml' included) has exactly one XML_CONTENT_CHANGED diff,
\* carrying both fingerprints; a part with identical bytes has none.
C28_XmlContentChanged ==
    cpc = "compared" =>
        \A f \in CommonXmlParts :
            LET c_hash == DictGet(Corrupt.hashes, f)
                r_hash == DictGet(Repaired.hashes, f)
            IN  IF c_hash = r_hash THEN ContentDiffsOf(f) = {}
                ELSE ~SpecificallyCompared(f) =>
                        /\ Cardinality(ContentDiffsOf(f)) = 1
                        /\ \A i \in ContentDiffsOf(f) :
                               /\ diffs[i].corrupt_hash = c_hash
                               /\ diffs[i].repaired_hash = r_hash

\* the positions of the file-set diffs of one type about a part
FileDiffs(t, f) == {i \in 1..Len(diffs) : diffs[i].type = t /\ diffs[i].file = f}

\* the parts of the one model that the other lacks
OnlyIn(a, b) == SetOf(Keys(a.files)) \ SetOf(Keys(b.files))

\* every part has the file-set diffs of its case: one 'removed' diff of the
\* first severity when only the corrupt package has it, one 'added' diff of
\* the second severity when only the repaired package has it, none otherwise
FileSetDiffs(removed_severity, added_severity) ==
    \A f \in SetOf(Keys(Corrupt.files)) \cup SetOf(Keys(Repaired.files)) :
        /\ Cardinality(FileDiffs("FILE_REMOVED", f)) =
               IF f \in OnlyIn(Corrupt, Repaired) THEN 1 ELSE 0
        /\ Cardinality(FileDiffs("FILE_ADDED", f)) =
               IF f \in OnlyIn(Repaired, Corrupt) THEN 1 ELSE 0
        /\ \A i \in FileDiffs("FILE_REMOVED", f) : diffs[i].severity = removed_severity
        /\ \A i \in FileDiffs("FILE_ADDED", f) : diffs[i].severity = added_severity

\* C29 as stated: a part only in the repaired package yields one 'added' diff
\* of severity HIGH, a part only in the corrupt package one 'removed' diff of
\* severity MEDIUM, a part in both neither.
C29_AddedHighRemovedMedium == CompareRan => FileSetDiffs("MEDIUM", "HIGH")

\* C29 (amended): a part only in the corrupt package yields one 'removed' diff
\* of severity HIGH, a part only in the repaired package one 'added' diff of
\* severity MEDIUM, a part in both neither.
C29_RemovedHighAddedMedium == CompareRan => FileSetDiffs("HIGH", "MEDIUM")

C29_Witness ==
    /\ CompareRan
    /\ OnlyIn(Corrupt, Repaired) # {}
    /\ OnlyIn(Repaired, Corrupt) # {}
    /\ SetOf(Keys(Corrupt.files)) \cap SetOf(Keys(Repaired.files)) # {}

\* list is a prefix of later
IsPrefixOf(list, later) ==
    /\ Len(list) <= Len(later)
    /\ SubSeq(later, 1, Len(list)) = list

\* no step removes, changes or reorders an entry of an issue list or of the
\* diff list
AppendOnlyStep ==
    /\ \A n \in Analyzers : IsPrefixOf(Object(n).issues, Object(n).issues')
    /\ IsPrefixOf(diffs, diffs')

\* an issue appended while the manifest or a descriptor is parsed
IsParseIssue(i) == i.type \in {"CRITICAL", "ERROR"}

\* in every analyze() call of analyzer a, what parsing appended precedes what
\* validation appended: the entries the call appended before its validation
\* started are parse issues, the ones after are not
ParsePrecedesValidation(a) ==
    \A k \in 1..Len(a.hist) :
        LET h == a.hist[k]
            last == IF h.end >= 0 THEN h.end
                    ELSE IF k < Len(a.hist) THEN a.hist[k+1].start
                    ELSE Len(a.issues)
        IN  \A i \in (h.start + 1)..last :
                IsParseIssue(a.issues[i]) <=> (h.vstart < 0 \/ i <= h.vstart)

\* C30: the issue list of every analyzer and the diff list are append-only
\* over load, parse, validate, repeated analyze(), compare() and repeated
\* compare(): the list before a step is a prefix of the list after it; and
\* the issues found while parsing the manifest and the descriptors precede
\* the issues found by the validation checks of the same run.
C30_AppendOnly ==
    /\ [][AppendOnlyStep]_vars
    /\ [](\A n \in Analyzers : ParsePrecedesValidation(Object(n)))

\* some analyzer ran twice and holds a validation issue after a parse issue
\* from each run, and compare() ran twice and appended diffs both times
C30_Witness ==
    /\ compares >= 2
    /\ diffs # <<>>
    /\ Len(diffs) = 2 * Len(compare(Corrupt, Repaired, hashSeed).diffs)
    /\ \E n \in {"corrupt", "repaired"} :
          /\ Len(Object(n).hist) >= 2
          /\ \A k \in 1..2 :
                /\ Object(n).hist[k].call = "analyze"
                /\ Object(n).hist[k].start < Object(n).hist[k].vstart
                /\ Object(n).hist[k].vstart < Object(n).hist[k].end

====
